---------------------------- MODULE Spec2Model ----------------------------
(***************************************************************************)
(* A model of the LPWAN coverage simulator: the obstacle geometry          *)
(* (lpwan_sim/core/environment.py and the vectorized shadowing of app.py), *)
(* the simulation engine (lpwan_sim/core/simulation.py) and the gateway    *)
(* placement search (lpwan_sim/analysis/placement.py).                     *)
(*                                                                         *)
(* Conventions.                                                            *)
(*  - A point is a pair <<x, y>> of integers: metres, or 1/unit metres in  *)
(*    an environment that carries a unit (the decimal environment of the   *)
(*    placement search, where a coordinate is 100 * tenths + ulps from the *)
(*    nearest double).  Squared distances are in square millimetres.      *)
(*    The geometry is evaluated in exact rational arithmetic; the code     *)
(*    evaluates it in                                                      *)
(*    IEEE doubles, which agree on integer inputs for the cross products   *)
(*    and up to rounding of t = n/d for the parametric ray test.           *)
(*  - Every dB / dBm quantity is an integer number of centi-dB (0.01 dB).  *)
(*  - A grid is a function from Cells (pairs <<row, col>>) to centi-dB.    *)
(*  - A linear power is a decimal float [m, e]: m * 10^-4 * 10^e mW with   *)
(*    10000 <= m < 100000, or m = 0.                                       *)
(*                                                                         *)
(* Specifications: SpecSeg (segments_intersect), SpecObs (obstacle         *)
(* attenuation), SpecRect (exact against vectorized rectangle shadow),     *)
(* SpecSim (Simulation.run and coverage_stats), SpecPlace (coverage_score  *)
(* and suggest_gateway_positions, with the legacy single-gateway search),  *)
(* SpecApp (run_simulation of app.py), SpecStats (coverage_stats, with     *)
(* zero-area environments), SpecFade (Simulation.run with fading, drawing  *)
(* from the global generator), SpecMat (Obstacle.from_material), SpecEnv   *)
(* (construction of an Environment, registrations, distance_grid),         *)
(* SpecPool (coverage_score on the workers of a pool).                     *)
(***************************************************************************)
EXTENDS Integers, Sequences, FiniteSets, TLC

VARIABLES
    dims,           \* Environment: [width, height, resolution]
    transmitters,   \* Environment.transmitters
    gateways,       \* Environment.gateways
    noise_sources,  \* Environment.noise_sources
    obstacles,      \* Environment.obstacles
    result,         \* the SimulationResult of the last Simulation.run
    stats,          \* the record of the last coverage_stats
    call,           \* the last top-level call: its arguments and its return
    pc,             \* position of the driving program
    placed,         \* suggest_gateway_positions: the gateways finalized so far
    suggestions,    \* suggest_gateway_positions: the records to return
    search,         \* suggest_gateway_positions: loop position and best so far
    frames,         \* the activations of coverage_score and their locals
    config,         \* app.py: the devices and obstacles of the page
    rng,            \* the global generator behind np.random.normal
    walls           \* Environment.walls

envVars == <<dims, transmitters, gateways, noise_sources, walls, obstacles>>
simVars == <<result, stats, rng>>
placeVars == <<placed, suggestions, search, frames>>
appVars == <<config>>
vars == <<dims, transmitters, gateways, noise_sources, walls, obstacles,
          result, stats, call, pc, placed, suggestions, search, frames, config,
          rng>>

----------------------------------------------------------------------------
(* Bounds of the model                                                     *)

MaxX == 3
MaxY == 2

----------------------------------------------------------------------------
(* Integer helpers                                                         *)

Abs(x) == IF x < 0 THEN -x ELSE x
Max2(a, b) == IF a >= b THEN a ELSE b
Min2(a, b) == IF a <= b THEN a ELSE b

\* nearest integer to a / b for b > 0, halves upwards
RoundDiv(a, b) == (2 * a + b) \div (2 * b)

NoCall == [op |-> "none"]
NoResult == [ran |-> FALSE]
NoStats == [computed |-> FALSE]
NoRng == [seeded |-> FALSE]
NoDims == [width |-> 0, height |-> 0, resolution |-> 1]
NoSearch == [phase |-> "idle"]
NoFrames == <<>>
NoConfig == [loaded |-> FALSE]

----------------------------------------------------------------------------
(* segments_intersect: environment.py 97-133                               *)

Cross(o, a, b) ==
    (a[1] - o[1]) * (b[2] - o[2]) - (a[2] - o[2]) * (b[1] - o[1])

OnSegment(o, a, b) ==
    /\ Min2(o[1], b[1]) <= a[1] /\ a[1] <= Max2(o[1], b[1])
    /\ Min2(o[2], b[2]) <= a[2] /\ a[2] <= Max2(o[2], b[2])

\* a plausible slip: only the proper-crossing test, no collinear handling
SegmentsIntersectProperOnly(p1, p2, p3, p4) ==
    LET d1 == Cross(p3, p4, p1)
        d2 == Cross(p3, p4, p2)
        d3 == Cross(p1, p2, p3)
        d4 == Cross(p1, p2, p4)
    IN  /\ (d1 > 0 /\ d2 < 0) \/ (d1 < 0 /\ d2 > 0)
        /\ (d3 > 0 /\ d4 < 0) \/ (d3 < 0 /\ d4 > 0)

SegmentsIntersect(p1, p2, p3, p4) ==
    LET d1 == Cross(p3, p4, p1)
        d2 == Cross(p3, p4, p2)
        d3 == Cross(p1, p2, p3)
        d4 == Cross(p1, p2, p4)
    IN  IF /\ (d1 > 0 /\ d2 < 0) \/ (d1 < 0 /\ d2 > 0)
           /\ (d3 > 0 /\ d4 < 0) \/ (d3 < 0 /\ d4 > 0)
        THEN TRUE
        ELSE IF d1 = 0 /\ OnSegment(p3, p1, p4) THEN TRUE
        ELSE IF d2 = 0 /\ OnSegment(p3, p2, p4) THEN TRUE
        ELSE IF d3 = 0 /\ OnSegment(p1, p3, p2) THEN TRUE
        ELSE IF d4 = 0 /\ OnSegment(p1, p4, p2) THEN TRUE
        ELSE FALSE

----------------------------------------------------------------------------
(* The geometric meaning of "the closed segments share a point", stated    *)
(* parametrically and independently of the orientation tests above.        *)

Vec(a, b) == <<b[1] - a[1], b[2] - a[2]>>
Dot(u, v) == u[1] * v[1] + u[2] * v[2]
Det(u, v) == u[1] * v[2] - u[2] * v[1]

\* point q lies on the closed segment a-b (a # b)
PointOnSegment(q, a, b) ==
    /\ Det(Vec(a, b), Vec(a, q)) = 0
    /\ 0 <= Dot(Vec(a, q), Vec(a, b))
    /\ Dot(Vec(a, q), Vec(a, b)) <= Dot(Vec(a, b), Vec(a, b))

SharePoint(p1, p2, p3, p4) ==
    LET u == Vec(p1, p2)
        v == Vec(p3, p4)
        w == Vec(p1, p3)
        D == Det(u, v)
        tn == Det(w, v)     \* p1 + (tn / D) u is the crossing of the two lines
        sn == Det(w, u)     \* p3 + (sn / D) v likewise
    IN  IF D > 0 THEN 0 <= tn /\ tn <= D /\ 0 <= sn /\ sn <= D
        ELSE IF D < 0 THEN D <= tn /\ tn <= 0 /\ D <= sn /\ sn <= 0
        ELSE IF p1 = p2 /\ p3 = p4 THEN p1 = p3
        ELSE IF p1 = p2 THEN PointOnSegment(p1, p3, p4)
        ELSE IF p3 = p4 THEN PointOnSegment(p3, p1, p2)
        ELSE \* parallel, both of positive length: collinear and overlapping
             /\ Det(u, w) = 0
             /\ LET a == Dot(w, u)
                    b == Dot(Vec(p1, p4), u)
                IN  Max2(0, Min2(a, b)) <= Min2(Dot(u, u), Max2(a, b))

----------------------------------------------------------------------------
(* Specification SpecSeg: segments_intersect on every pair of segments     *)
(* with endpoints on the integer grid (0..MaxX) x (0..MaxY).               *)

Points == (0 .. MaxX) \X (0 .. MaxY)

IdleEnv ==
    /\ dims = NoDims
    /\ transmitters = <<>>
    /\ gateways = <<>>
    /\ noise_sources = <<>>
    /\ walls = <<>>
    /\ obstacles = <<>>

IdleSim == result = NoResult /\ stats = NoStats /\ rng = NoRng
IdlePlace == placed = <<>> /\ suggestions = <<>> /\ search = NoSearch /\ frames = NoFrames
IdleApp == config = NoConfig

InitSeg ==
    /\ IdleEnv
    /\ IdleSim
    /\ IdlePlace
    /\ IdleApp
    /\ pc = "call"
    /\ call \in [op : {"segments_intersect"}, p1 : Points, p2 : Points,
                 p3 : Points, p4 : Points, done : {FALSE}, ret : {FALSE}]

CallSegmentsIntersect ==
    /\ pc = "call"
    /\ call.op = "segments_intersect"
    /\ call' = [call EXCEPT !.done = TRUE,
                            !.ret = SegmentsIntersect(call.p1, call.p2, call.p3, call.p4)]
    /\ pc' = "done"
    /\ UNCHANGED <<placeVars, appVars, envVars, simVars>>

NextSeg == CallSegmentsIntersect

SpecSeg == InitSeg /\ [][NextSeg]_vars

SegReturned == call.op = "segments_intersect" /\ call.done

\* C4: segments_intersect(p1,p2,p3,p4) is True exactly when the closed
\* segments p1-p2 and p3-p4 share a point, and the answer does not change
\* when the two segments are swapped or the endpoints of either are swapped.
C4_SegmentsIntersectExact ==
    SegReturned =>
        /\ call.ret = SharePoint(call.p1, call.p2, call.p3, call.p4)
        /\ call.ret = SegmentsIntersect(call.p3, call.p4, call.p1, call.p2)
        /\ call.ret = SegmentsIntersect(call.p2, call.p1, call.p3, call.p4)
        /\ call.ret = SegmentsIntersect(call.p1, call.p2, call.p4, call.p3)

\* a T-touch: an endpoint of one segment in the interior of the other,
\* the segments not collinear, answered True
C4_Witness_TTouch ==
    /\ SegReturned
    /\ call.ret
    /\ Cross(call.p3, call.p4, call.p1) = 0
    /\ Cross(call.p3, call.p4, call.p2) # 0
    /\ call.p1 # call.p3 /\ call.p1 # call.p4

----------------------------------------------------------------------------
(* Environment.add_obstacle and Environment.obstacle_attenuation:          *)
(* environment.py 183-199                                                  *)

MaxObstacles == 3

Obstacle(sp, ep, att, mat) ==
    [start_point |-> sp, end_point |-> ep, attenuation_db |-> att, material |-> mat]

RECURSIVE AttenuationLoop(_, _, _, _, _)
AttenuationLoop(obs, i, total, p1, p2) ==
    IF i > Len(obs) THEN total
    ELSE AttenuationLoop(obs, i + 1,
             IF SegmentsIntersect(p1, p2, obs[i].start_point, obs[i].end_point)
             THEN total + obs[i].attenuation_db
             ELSE total,
             p1, p2)

RECURSIVE StrongestLoop(_, _, _, _, _)
StrongestLoop(obs, i, total, p1, p2) ==
    IF i > Len(obs) THEN total
    ELSE StrongestLoop(obs, i + 1,
             IF SegmentsIntersect(p1, p2, obs[i].start_point, obs[i].end_point)
             THEN Max2(total, obs[i].attenuation_db)
             ELSE total,
             p1, p2)

\* a plausible slip: the strongest obstacle instead of the sum
ObstacleAttenuationStrongest(obs, p1, p2) == StrongestLoop(obs, 1, 0, p1, p2)

\* obstacle_attenuation of an Environment whose obstacle list is obs
ObstacleAttenuation(obs, p1, p2) == AttenuationLoop(obs, 1, 0, p1, p2)

\* the walls a caller may register (attenuations in centi-dB)
ObstaclePool ==
    { Obstacle(<<1, 0>>, <<1, MaxY>>, 300, "drywall"),
      Obstacle(<<2, 0>>, <<2, MaxY>>, 1000, "brick"),
      Obstacle(<<0, 1>>, <<MaxX, 1>>, 1200, "concrete") }

InitObs ==
    /\ IdleEnv
    /\ IdleSim
    /\ IdlePlace
    /\ IdleApp
    /\ call = NoCall
    /\ pc = "build"

AddObstacle ==
    /\ pc = "build"
    /\ Len(obstacles) < MaxObstacles
    /\ \E o \in ObstaclePool : obstacles' = Append(obstacles, o)
    /\ UNCHANGED <<placeVars, appVars, dims, transmitters, gateways, noise_sources, walls, simVars, call, pc>>

CallObstacleAttenuation ==
    /\ pc = "build"
    /\ \E p1 \in Points, p2 \in Points :
          call' = [op |-> "obstacle_attenuation", p1 |-> p1, p2 |-> p2,
                   done |-> TRUE, ret |-> ObstacleAttenuation(obstacles, p1, p2)]
    /\ pc' = "done"
    /\ UNCHANGED <<placeVars, appVars, envVars, simVars>>

NextObs == AddObstacle \/ CallObstacleAttenuation

SpecObs == InitObs /\ [][NextObs]_vars

RECURSIVE SumAtt(_, _)
SumAtt(obs, S) ==
    IF S = {} THEN 0
    ELSE LET i == CHOOSE j \in S : TRUE
         IN  obs[i].attenuation_db + SumAtt(obs, S \ {i})

Crossed(obs, p1, p2) ==
    { i \in DOMAIN obs : SharePoint(p1, p2, obs[i].start_point, obs[i].end_point) }

Orderings(n) ==
    { f \in [1 .. n -> 1 .. n] : \A i, j \in 1 .. n : f[i] = f[j] => i = j }

Reordered(obs, f) == [i \in 1 .. Len(obs) |-> obs[f[i]]]

AttReturned == call.op = "obstacle_attenuation" /\ call.done

\* C3: obstacle_attenuation returns exactly the sum of attenuation_db over
\* the registered obstacles whose segment shares a point with the closed
\* segment p1-p2 (0 when there is none, no cap), whatever the order in
\* which the obstacles were registered.
C3_AttenuationIsSumOfCrossed ==
    AttReturned =>
        /\ call.ret = SumAtt(obstacles, Crossed(obstacles, call.p1, call.p2))
        /\ Crossed(obstacles, call.p1, call.p2) = {} => call.ret = 0
        /\ \A f \in Orderings(Len(obstacles)) :
              ObstacleAttenuation(Reordered(obstacles, f), call.p1, call.p2) = call.ret

\* three obstacles registered, a 3 dB and a 10 dB wall among them, both
\* crossed: the return value is at least their sum
C3_Witness_TwoCrossed ==
    /\ AttReturned
    /\ Len(obstacles) = 3
    /\ \E i, j \in Crossed(obstacles, call.p1, call.p2) :
          /\ obstacles[i].attenuation_db = 300
          /\ obstacles[j].attenuation_db = 1000
    /\ call.ret >= 1300

----------------------------------------------------------------------------
(* Rectangular obstacles of the web layer: app.py 20-29, 107-129, 188-230, *)
(* 253-270, 303-306.  A rectangle is [x, y, w, h, type, material] with its *)
(* corner and extent already in metres (position * 1000, width_km * 1000   *)
(* of a request given in multiples of 0.001 km).                           *)

DefaultAttenuation == 1000

MaterialDb(material) ==
    CASE material = "wood" -> 400
      [] material = "glass" -> 300
      [] material = "cement" -> 1200
      [] material = "metal" -> 2500
      [] material = "brick" -> 1000
      [] material = "water" -> 1200
      [] material = "foliage" -> 800
      [] material = "water_tower" -> 1500
      [] OTHER -> DefaultAttenuation

\* rect_to_obstacle_segments 112-121: the material's value, overridden by type
SegmentAttenuation(rect) ==
    IF rect.type = "house" THEN MaterialDb("brick")
    ELSE IF rect.type = "water" THEN MaterialDb("water")
    ELSE IF rect.type = "forest" THEN MaterialDb("foliage")
    ELSE IF rect.type = "water_tower" THEN MaterialDb("water_tower")
    ELSE MaterialDb(rect.material)

RectToObstacleSegments(rect) ==
    LET x1 == rect.x
        y1 == rect.y
        x2 == rect.x + rect.w
        y2 == rect.y + rect.h
        att == SegmentAttenuation(rect)
    IN  << Obstacle(<<x1, y1>>, <<x2, y1>>, att, rect.material),
           Obstacle(<<x2, y1>>, <<x2, y2>>, att, rect.material),
           Obstacle(<<x2, y2>>, <<x1, y2>>, att, rect.material),
           Obstacle(<<x1, y2>>, <<x1, y1>>, att, rect.material) >>

\* _apply_obstacle_shadows 260-269
ShadowAttenuation(rect) ==
    IF rect.type = "house" THEN MaterialDb("brick")
    ELSE IF rect.type = "water" THEN MaterialDb("water")
    ELSE IF rect.type = "forest" THEN MaterialDb("foliage")
    ELSE IF rect.type = "water_tower" THEN MaterialDb("water_tower")
    ELSE MaterialDb(rect.material)

\* the inset of the ray parameter: 0.01 < t < 0.99, in hundredths
InsetLo == 1
InsetHi == 99
InsetDen == 100

\* One edge test of _ray_intersects_rect_vectorized for one cell.  The ray
\* parameter is t = n / d (t = -1 where |d| <= 1e-6, which for integers is
\* d = 0); the coordinate along the edge at t is o + t * dd and must lie in
\* [lo, hi].
EdgeHit(n, d, o, dd, lo, hi) ==
    IF d = 0 THEN FALSE
    ELSE LET sgn == IF d > 0 THEN 1 ELSE -1
             N == sgn * n
             Dn == sgn * d
         IN  /\ InsetLo * Dn < InsetDen * N
             /\ InsetDen * N < InsetHi * Dn
             /\ o * Dn + N * dd >= lo * Dn
             /\ o * Dn + N * dd <= hi * Dn

HitLeft(tx, cell, r) ==
    EdgeHit(r.x - tx[1], cell[1] - tx[1], tx[2], cell[2] - tx[2], r.y, r.y + r.h)
HitRight(tx, cell, r) ==
    EdgeHit(r.x + r.w - tx[1], cell[1] - tx[1], tx[2], cell[2] - tx[2], r.y, r.y + r.h)
HitTop(tx, cell, r) ==
    EdgeHit(r.y - tx[2], cell[2] - tx[2], tx[1], cell[1] - tx[1], r.x, r.x + r.w)
HitBot(tx, cell, r) ==
    EdgeHit(r.y + r.h - tx[2], cell[2] - tx[2], tx[1], cell[1] - tx[1], r.x, r.x + r.w)

\* the first array returned by _ray_intersects_rect_vectorized, at one cell
RayHits(tx, cell, r) ==
    HitLeft(tx, cell, r) \/ HitRight(tx, cell, r) \/ HitTop(tx, cell, r) \/ HitBot(tx, cell, r)

\* the second array returned, at one cell
InsideRect(cell, r) ==
    /\ cell[1] >= r.x /\ cell[1] <= r.x + r.w
    /\ cell[2] >= r.y /\ cell[2] <= r.y + r.h

\* a plausible slip: the crossing added to the interior doubling
RectShadowCountsBoth(tx, cell, r) ==
    (IF InsideRect(cell, r) THEN 2 * ShadowAttenuation(r) ELSE 0)
    + (IF RayHits(tx, cell, r) THEN ShadowAttenuation(r) ELSE 0)

\* _apply_obstacle_shadows 304-306: what one rectangle adds to att_flat at
\* one cell for one transmitter
RectShadow(tx, cell, r) ==
    (IF InsideRect(cell, r) THEN 2 * ShadowAttenuation(r) ELSE 0)
    + (IF RayHits(tx, cell, r) /\ ~InsideRect(cell, r) THEN ShadowAttenuation(r) ELSE 0)

\* the exact path for the same rectangle: its four segments registered in
\* an Environment (run_simulation 332-334) and summed by obstacle_attenuation
RectExact(tx, cell, r) == ObstacleAttenuation(RectToObstacleSegments(r), tx, cell)

----------------------------------------------------------------------------
(* Specification SpecRect: one source, one destination and one rectangle;  *)
(* the exact path, then the vectorized path, as run_simulation orders them.*)
(* The x coordinates include two far values so that an edge can lie within *)
(* the first or the last hundredth of a ray.                               *)

FarX == 2 * InsetDen + 1
RectXs == (0 .. MaxX) \cup {FarX - 1, FarX}
RectYs == 0 .. MaxY
RectPoints == RectXs \X RectYs

RectKinds == { <<"house", "wood">>, <<"building", "metal">> }

Rects ==
    { [x |-> x1, y |-> y1, w |-> x2 - x1, h |-> y2 - y1, type |-> k[1], material |-> k[2]] :
        x1 \in RectXs, x2 \in RectXs, y1 \in RectYs, y2 \in RectYs, k \in RectKinds }

InitRect ==
    /\ IdleEnv
    /\ IdleSim
    /\ IdlePlace
    /\ IdleApp
    /\ pc = "exact"
    /\ \E tx \in RectPoints, cell \in RectPoints :
       \E r \in { q \in Rects : q.w > 0 /\ q.h > 0 } :
          call = [op |-> "shadow", tx |-> tx, cell |-> cell, rect |-> r, exact |-> 0, vec |-> 0]

ExactPath ==
    /\ pc = "exact"
    /\ call' = [call EXCEPT !.exact = RectExact(call.tx, call.cell, call.rect)]
    /\ pc' = "vectorized"
    /\ UNCHANGED <<placeVars, appVars, envVars, simVars>>

VectorizedPath ==
    /\ pc = "vectorized"
    /\ call' = [call EXCEPT !.vec = RectShadow(call.tx, call.cell, call.rect)]
    /\ pc' = "done"
    /\ UNCHANGED <<placeVars, appVars, envVars, simVars>>

NextRect == ExactPath \/ VectorizedPath

SpecRect == InitRect /\ [][NextRect]_vars

ExactDone == call.op = "shadow" /\ pc \in {"vectorized", "done"}
BothDone == call.op = "shadow" /\ pc = "done"

EdgesHit(tx, cell, r) ==
    Cardinality({ e \in {"left", "right", "top", "bot"} :
                    \/ e = "left" /\ HitLeft(tx, cell, r)
                    \/ e = "right" /\ HitRight(tx, cell, r)
                    \/ e = "top" /\ HitTop(tx, cell, r)
                    \/ e = "bot" /\ HitBot(tx, cell, r) })

\* the open segments p1-p2 and p3-p4 cross at a single interior point
StrictCross(p1, p2, p3, p4) ==
    LET u == Vec(p1, p2)
        v == Vec(p3, p4)
        w == Vec(p1, p3)
        D == Det(u, v)
        tn == Det(w, v)
        sn == Det(w, u)
    IN  \/ D > 0 /\ 0 < tn /\ tn < D /\ 0 < sn /\ sn < D
        \/ D < 0 /\ D < tn /\ tn < 0 /\ D < sn /\ sn < 0

\* the rectangle lies directly between source and destination: both are off
\* the closed rectangle and the segment between them passes through its
\* interior (it crosses a diagonal strictly inside the rectangle)
RectBetween(tx, cell, r) ==
    /\ ~InsideRect(tx, r)
    /\ ~InsideRect(cell, r)
    /\ \/ StrictCross(tx, cell, <<r.x, r.y>>, <<r.x + r.w, r.y + r.h>>)
       \/ StrictCross(tx, cell, <<r.x, r.y + r.h>>, <<r.x + r.w, r.y>>)

\* C6 as stated: 2*A for a cell inside the rectangle and nothing more;
\* exactly A for a cell outside with the rectangle between transmitter and
\* cell.
C6_Original_BetweenGivesA ==
    BothDone =>
        /\ InsideRect(call.cell, call.rect) => call.vec = 2 * ShadowAttenuation(call.rect)
        /\ RectBetween(call.tx, call.cell, call.rect) => call.vec = ShadowAttenuation(call.rect)

\* C6 amended: 2*A for a cell inside the rectangle (inclusive bounds) and
\* nothing more, whatever the ray crosses; for a cell outside, exactly A
\* when at least one of the four edges is crossed at a ray parameter
\* strictly between 0.01 and 0.99, however many are, and 0 when none is,
\* even if the rectangle lies between transmitter and cell.
C6_InsideDoubleElseOnce ==
    BothDone =>
        LET A == ShadowAttenuation(call.rect)
            n == EdgesHit(call.tx, call.cell, call.rect)
        IN  /\ InsideRect(call.cell, call.rect) => call.vec = 2 * A
            /\ ~InsideRect(call.cell, call.rect) /\ n >= 1 => call.vec = A
            /\ ~InsideRect(call.cell, call.rect) /\ n = 0 => call.vec = 0

\* a cell inside the rectangle whose ray also crosses an edge within the
\* inset: doubled, the crossing not added
C6_Witness_InsideAndCrossed ==
    /\ BothDone
    /\ InsideRect(call.cell, call.rect)
    /\ EdgesHit(call.tx, call.cell, call.rect) >= 1
    /\ call.vec = 2 * ShadowAttenuation(call.rect)

\* C8 as stated: for source and destination strictly outside the rectangle
\* the exact segment path and the vectorized path give the same attenuation.
C8_ExactEqualsVectorized ==
    BothDone /\ ~InsideRect(call.tx, call.rect) /\ ~InsideRect(call.cell, call.rect)
        => call.exact = call.vec

\* C9 as stated: the four segments of a rectangle of attenuation A add at
\* most 2*A to any single line.
C9_AtMostTwoCrossings ==
    ExactDone => call.exact <= 2 * SegmentAttenuation(call.rect)

----------------------------------------------------------------------------
(* Fixed-point log10 and 10^x, standing for np.log10 and 10.0 ** x.        *)
(* Log10Milli(k) is 1000 * log10(k) to the nearest unit; a linear power is *)
(* kept as a 5-digit decimal float so that dBm -> mW -> dBm is exact on    *)
(* centi-dB values.                                                        *)

\* 10^(a/10), 10^(b/100), 10^(c/1000) times 10^4
Tenths == <<10000, 12589, 15849, 19953, 25119, 31623, 39811, 50119, 63096, 79433>>
Hundredths == <<10000, 10233, 10471, 10715, 10965, 11220, 11482, 11749, 12023, 12303>>
Thousandths == <<10000, 10023, 10046, 10069, 10093, 10116, 10139, 10162, 10186, 10209, 10233>>

MantOne == Tenths[1]

RECURSIVE Pow10(_)
Pow10(n) == IF n <= 0 THEN 1 ELSE 10 * Pow10(n - 1)

RECURSIVE DecimalExponent(_)
DecimalExponent(k) == IF k < 10 THEN 0 ELSE 1 + DecimalExponent(k \div 10)

\* 10^(r/1000) * 10^4 for r in 0..999
Mant(r) ==
    LET a == r \div 100
        b == (r \div 10) % 10
        c == r % 10
    IN  RoundDiv(RoundDiv(Tenths[a + 1] * Hundredths[b + 1], MantOne) * Thousandths[c + 1],
                 MantOne)

\* 1000 * log10(m / 10^4) for MantOne <= m < 10 * MantOne
LogMant(m) ==
    LET a == CHOOSE i \in 0 .. 9 :
                 Tenths[i + 1] <= m /\ (i = 9 \/ Tenths[i + 2] > m)
        m1 == RoundDiv(m * MantOne, Tenths[a + 1])
        b == IF m1 < MantOne THEN 0
             ELSE CHOOSE i \in 0 .. 9 :
                      Hundredths[i + 1] <= m1 /\ (i = 9 \/ Hundredths[i + 2] > m1)
        m2 == RoundDiv(m1 * MantOne, Hundredths[b + 1])
        c == CHOOSE i \in 0 .. 10 :
                 \A j \in 0 .. 10 :
                     \/ Abs(Thousandths[i + 1] - m2) < Abs(Thousandths[j + 1] - m2)
                     \/ Abs(Thousandths[i + 1] - m2) = Abs(Thousandths[j + 1] - m2) /\ i <= j
    IN  100 * a + 10 * b + c

\* 1000 * log10(k) for an integer k >= 1
Log10Milli(k) ==
    LET e == DecimalExponent(k)
        m == IF e <= 4 THEN k * Pow10(4 - e) ELSE RoundDiv(k, Pow10(e - 4))
    IN  1000 * e + LogMant(m)

LinZero == [m |-> 0, e |-> 0]

\* 10.0 ** (p / 10.0) for p in centi-dB
DbToLin(p) == [m |-> Mant(p % 1000), e |-> p \div 1000]

LinAdd(x, y) ==
    IF x.m = 0 THEN y
    ELSE IF y.m = 0 THEN x
    ELSE LET e == Max2(x.e, y.e)
             xm == IF e - x.e > 5 THEN 0 ELSE RoundDiv(x.m, Pow10(e - x.e))
             ym == IF e - y.e > 5 THEN 0 ELSE RoundDiv(y.m, Pow10(e - y.e))
             sum == xm + ym
         IN  IF sum >= 10 * MantOne THEN [m |-> RoundDiv(sum, 10), e |-> e + 1]
             ELSE [m |-> sum, e |-> e]

\* 10.0 * np.log10(x) in centi-dB, x > 0
LinToDb(x) == 1000 * x.e + LogMant(x.m)

\* Python's round(a / b, 0) for b > 0: ties to the even neighbour
RoundHalfEven(a, b) ==
    LET q == a \div b
        r == a % b
    IN  IF 2 * r < b THEN q
        ELSE IF 2 * r > b THEN q + 1
        ELSE IF q % 2 = 0 THEN q ELSE q + 1

----------------------------------------------------------------------------
(* Path loss: propagation/pathloss.py 8-34.  Distances enter as squared    *)
(* distances d2 in square millimetres (integers); frequencies in MHz;      *)
(* results in centi-dB.                                                    *)

FsplConstant == 3244

SqMetre == Pow10(6)

\* free_space_path_loss of sqrt(d2) millimetres: 20 log10(max(d_km, 1e-6))
\* + 20 log10(f) + 32.44
FreeSpacePathLoss(d2, freq) ==
    (Log10Milli(Max2(d2, 1)) - 12000) + 2 * Log10Milli(freq) + FsplConstant

\* log_distance_path_loss with d0 = 1 m; n10 is the exponent in tenths
LogDistancePathLoss(d2, freq, n10) ==
    FreeSpacePathLoss(SqMetre, freq)
        + RoundDiv(n10 * (Log10Milli(Max2(d2, SqMetre)) - 6000), 20)

----------------------------------------------------------------------------
(* The grid of an Environment: environment.py 160-165, 201-227             *)

\* Lengths of an Environment are integers in units of 1 / unit metres; an
\* Environment without the field is in metres.
UnitOf(d) == IF "unit" \in DOMAIN d THEN d.unit ELSE 1
MmPerUnit(d) == 1000 \div UnitOf(d)

\* ceil(a / b) for b # 0
CeilDiv(a, b) == IF b > 0 THEN -((-a) \div b) ELSE -(a \div (-b))

\* the length of np.arange(0, stop, step): ceil(stop / step), zero when that
\* is negative
ArangeLen(stop, step) == Max2(CeilDiv(stop, step), 0)

Arange(stop, step) == { k * step : k \in 0 .. ArangeLen(stop, step) - 1 }

Rows(d) == Cardinality(Arange(d.height, d.resolution))
Cols(d) == Cardinality(Arange(d.width, d.resolution))
Cells(d) == (0 .. Rows(d) - 1) \X (0 .. Cols(d) - 1)

\* grid_x[i, j], grid_y[i, j] of the meshgrid of xs and ys
GridPoint(d, c) == <<c[2] * d.resolution, c[1] * d.resolution>>

\* a plausible slip: the distances without the clip
DistanceSqGridUnclipped(d, src) ==
    [c \in Cells(d) |->
        Dot(Vec(src, GridPoint(d, c)), Vec(src, GridPoint(d, c)))
            * MmPerUnit(d) * MmPerUnit(d)]

\* distance_grid, squared and in square millimetres: the clip to resolution
\* applied to the square (a square root is never below a negative
\* resolution)
DistanceSqGrid(d, src) ==
    [c \in Cells(d) |->
        Max2(Dot(Vec(src, GridPoint(d, c)), Vec(src, GridPoint(d, c))),
             IF d.resolution > 0 THEN d.resolution * d.resolution ELSE 0)
            * MmPerUnit(d) * MmPerUnit(d)]

ObstacleAttenuationGrid(d, obs, src) ==
    [c \in Cells(d) |->
        IF obs = <<>> THEN 0 ELSE ObstacleAttenuation(obs, src, GridPoint(d, c))]

----------------------------------------------------------------------------
(* Devices: core/device.py; protocols/base.py, protocols/lorawan.py        *)

Protocol(freq, maxp) == [frequency_mhz |-> freq, max_tx_power_dbm |-> maxp]
LoRaWAN_EU868 == Protocol(868, 1400)

Transmitter(x, y, proto, pwr, gain, label) ==
    [x |-> x, y |-> y, protocol |-> proto, tx_power_dbm |-> pwr,
     antenna_gain_dbi |-> gain, label |-> label]

Eirp(tx) == tx.tx_power_dbm + tx.antenna_gain_dbi

DefaultSensitivity == -13700
DefaultGatewayGain == 300

Gateway(x, y, proto, sens) ==
    [x |-> x, y |-> y, protocol |-> proto, sensitivity_dbm |-> sens,
     antenna_gain_dbi |-> DefaultGatewayGain, label |-> ""]

NoiseSource(x, y, pwr, freq) ==
    [x |-> x, y |-> y, power_dbm |-> pwr, frequency_mhz |-> freq]

----------------------------------------------------------------------------
(* Simulation: core/simulation.py.  A Simulation object is its parameters. *)
(* Fading is off (shadow_fading_std = 0, multipath_fading = False) in this *)
(* section; the run with fading is modelled with specification SpecFade.   *)

DefaultNoiseFloor == -12000
DefaultNoiseFigure == 600
DefaultExponent == 27

DefaultSimulation ==
    [pathloss_model |-> "log-distance", pathloss_exponent |-> DefaultExponent,
     noise_floor_dbm |-> DefaultNoiseFloor, noise_figure_db |-> DefaultNoiseFigure]

PathLoss(sim, d2, freq) ==
    IF sim.pathloss_model = "fspl" THEN FreeSpacePathLoss(d2, freq)
    ELSE LogDistancePathLoss(d2, freq, sim.pathloss_exponent)

\* the rssi array of one transmitter (run 79-87)
RssiGrid(sim, d, obs, tx) ==
    LET dist == DistanceSqGrid(d, <<tx.x, tx.y>>)
        att == ObstacleAttenuationGrid(d, obs, <<tx.x, tx.y>>)
    IN  [c \in Cells(d) |->
            Eirp(tx) - (PathLoss(sim, dist[c], tx.protocol.frequency_mhz) + att[c])]

\* tx.label or f"tx_{idx}", idx counted from 0
LabelOf(tx, idx) == IF tx.label = "" THEN "tx_" \o ToString(idx) ELSE tx.label

RssiStack(sim, d, obs, txs) == [i \in 1 .. Len(txs) |-> RssiGrid(sim, d, obs, txs[i])]

Labels(txs) == { LabelOf(txs[i], i - 1) : i \in 1 .. Len(txs) }

\* result.rssi after the loop: a later transmitter overwrites an equal label
RssiByLabel(txs, stack) ==
    [l \in Labels(txs) |->
        LET last == CHOOSE i \in 1 .. Len(txs) :
                        /\ LabelOf(txs[i], i - 1) = l
                        /\ \A j \in 1 .. Len(txs) : LabelOf(txs[j], j - 1) = l => j <= i
        IN  stack[last]]

\* np.maximum.reduce over a non-empty set of grids
MaxReduce(d, grids) ==
    [c \in Cells(d) |->
        CHOOSE v \in { g[c] : g \in grids } : \A g \in grids : g[c] <= v]

Range(f) == { f[k] : k \in DOMAIN f }

RECURSIVE InterferenceLoop(_, _, _, _, _, _)
InterferenceLoop(sim, d, obs, nss, i, acc) ==
    IF i > Len(nss) THEN acc
    ELSE LET ns == nss[i]
             dist == DistanceSqGrid(d, <<ns.x, ns.y>>)
             att == ObstacleAttenuationGrid(d, obs, <<ns.x, ns.y>>)
         IN  InterferenceLoop(sim, d, obs, nss, i + 1,
                 [c \in Cells(d) |->
                     LinAdd(acc[c],
                            DbToLin(ns.power_dbm
                                    - (PathLoss(sim, dist[c], ns.frequency_mhz) + att[c])))])

\* a plausible slip: the noise sources are left out of the sum
InterferenceGridFloorOnly(sim, d, obs, nss) ==
    [c \in Cells(d) |-> LinToDb(DbToLin(sim.noise_floor_dbm))]

\* result.interference (run 111-126)
InterferenceGrid(sim, d, obs, nss) ==
    LET mw == InterferenceLoop(sim, d, obs, nss, 1, [c \in Cells(d) |-> LinZero])
    IN  [c \in Cells(d) |-> LinToDb(LinAdd(mw[c], DbToLin(sim.noise_floor_dbm)))]

\* a plausible slip: the noise figure of the receiver is left out of the SNR
SimulationRunNoFigure(sim, d, obs, txs, nss) ==
    LET stack == RssiStack(sim, d, obs, txs)
        rssi == RssiByLabel(txs, stack)
        interference == InterferenceGrid(sim, d, obs, nss)
        snr == [l \in DOMAIN rssi |->
                   [c \in Cells(d) |-> rssi[l][c] - interference[c]]]
    IN  [ran |-> TRUE, rssi |-> rssi, interference |-> interference, snr |-> snr,
         best_rssi |-> IF Len(txs) > 0 THEN MaxReduce(d, Range(stack))
                       ELSE [c \in Cells(d) |-> sim.noise_floor_dbm],
         best_snr |-> IF DOMAIN snr # {} THEN MaxReduce(d, Range(snr))
                      ELSE [c \in Cells(d) |-> 0]]

\* a plausible slip: the transmitters are counted as interferers as well
SimulationRunCochannel(sim, d, obs, txs, nss) ==
    LET stack == RssiStack(sim, d, obs, txs)
        rssi == RssiByLabel(txs, stack)
        interference ==
            InterferenceGrid(sim, d, obs,
                nss \o [i \in 1 .. Len(txs) |->
                           NoiseSource(txs[i].x, txs[i].y, Eirp(txs[i]),
                                       txs[i].protocol.frequency_mhz)])
        snr == [l \in DOMAIN rssi |->
                   [c \in Cells(d) |-> rssi[l][c] - (interference[c] + sim.noise_figure_db)]]
    IN  [ran |-> TRUE, rssi |-> rssi, interference |-> interference, snr |-> snr,
         best_rssi |-> IF Len(txs) > 0 THEN MaxReduce(d, Range(stack))
                       ELSE [c \in Cells(d) |-> sim.noise_floor_dbm],
         best_snr |-> IF DOMAIN snr # {} THEN MaxReduce(d, Range(snr))
                      ELSE [c \in Cells(d) |-> 0]]

\* Simulation.run (71-140)
SimulationRun(sim, d, obs, txs, nss) ==
    LET stack == RssiStack(sim, d, obs, txs)
        rssi == RssiByLabel(txs, stack)
        interference == InterferenceGrid(sim, d, obs, nss)
        snr == [l \in DOMAIN rssi |->
                   [c \in Cells(d) |-> rssi[l][c] - (interference[c] + sim.noise_figure_db)]]
    IN  [ran |-> TRUE, rssi |-> rssi, interference |-> interference, snr |-> snr,
         best_rssi |-> IF Len(txs) > 0 THEN MaxReduce(d, Range(stack))
                       ELSE [c \in Cells(d) |-> sim.noise_floor_dbm],
         best_snr |-> IF DOMAIN snr # {} THEN MaxReduce(d, Range(snr))
                      ELSE [c \in Cells(d) |-> 0]]

RECURSIVE SumOver(_, _)
SumOver(g, S) ==
    IF S = {} THEN 0
    ELSE LET c == CHOOSE x \in S : TRUE IN g[c] + SumOver(g, S \ {c})

\* the float nan
NaN == "nan"

\* round(float(np.mean(grid)), 2), in hundredths; the mean of an empty array
\* is nan (numpy warns and does not raise) and round(nan, 2) is nan
MeanRounded(g) ==
    IF DOMAIN g = {} THEN NaN
    ELSE RoundHalfEven(SumOver(g, DOMAIN g), Cardinality(DOMAIN g))

\* a plausible slip: a cell exactly at the threshold is not counted
CoverageStatsStrict(res, sensitivity) ==
    LET total == Cardinality(DOMAIN res.best_rssi)
        covered == Cardinality({ c \in DOMAIN res.best_rssi : res.best_rssi[c] > sensitivity })
    IN  [computed |-> TRUE,
         total_points |-> total,
         covered_points |-> covered,
         coverage_pct |-> IF total # 0 THEN RoundHalfEven(10000 * covered, total) ELSE 0,
         mean_rssi_dbm |-> MeanRounded(res.best_rssi),
         mean_snr_db |-> MeanRounded(res.best_snr)]

\* Simulation.coverage_stats (143-155); coverage_pct in hundredths of a
\* percent
CoverageStats(res, sensitivity) ==
    LET total == Cardinality(DOMAIN res.best_rssi)
        covered == Cardinality({ c \in DOMAIN res.best_rssi : res.best_rssi[c] >= sensitivity })
    IN  [computed |-> TRUE,
         total_points |-> total,
         covered_points |-> covered,
         coverage_pct |-> IF total # 0 THEN RoundHalfEven(10000 * covered, total) ELSE 0,
         mean_rssi_dbm |-> MeanRounded(res.best_rssi),
         mean_snr_db |-> MeanRounded(res.best_snr)]

----------------------------------------------------------------------------
(* Specification SpecSim: an Environment of MaxX x MaxY metres at 1 m      *)
(* resolution, with or without one wall and one noise source; the caller   *)
(* registers up to MaxTx transmitters, runs a default Simulation and asks  *)
(* for the coverage statistics.                                            *)

MaxTx == 2

SimDims == [width |-> MaxX, height |-> MaxY, resolution |-> 1]

TransmitterPool ==
    { Transmitter(p[1], p[2], LoRaWAN_EU868, 1400, 0, l) :
        p \in { <<0, 0>>, <<MaxX - 1, MaxY - 1>> }, l \in { "", "a", "tx_1" } }

SimWall == Obstacle(<<1, 0>>, <<1, MaxY>>, 1200, "concrete")
SimNoise == NoiseSource(MaxX - 1, 0, -6000, 868)
WeakNoise == NoiseSource(0, MaxY - 1, -8000, 868)
NoisePool == { SimNoise, WeakNoise }

Sensitivities == { DefaultSensitivity, -2000 }

\* thresholds of a direct coverage_stats call: the noise floor as well, the
\* value of every cell of best_rssi without transmitters
Thresholds == Sensitivities \cup { DefaultNoiseFloor }

InitSim ==
    /\ dims = SimDims
    /\ transmitters = <<>>
    /\ gateways = <<>>
    /\ noise_sources \in { <<>>, <<SimNoise>>, <<WeakNoise, SimNoise>> }
    /\ walls = <<>>
    /\ obstacles \in { <<>>, <<SimWall>> }
    /\ IdleSim
    /\ IdlePlace
    /\ IdleApp
    /\ call = NoCall
    /\ pc = "build"

AddTransmitter ==
    /\ pc = "build"
    /\ Len(transmitters) < MaxTx
    /\ \E tx \in TransmitterPool : transmitters' = Append(transmitters, tx)
    /\ UNCHANGED <<placeVars, appVars, dims, gateways, noise_sources, walls, obstacles, simVars, call, pc>>

RunSimulation ==
    /\ pc = "build"
    /\ result' = SimulationRun(DefaultSimulation, dims, obstacles, transmitters, noise_sources)
    /\ pc' = "ran"
    /\ UNCHANGED <<placeVars, appVars, envVars, stats, rng, call>>

CallCoverageStats ==
    /\ pc = "ran"
    /\ \E s \in Thresholds :
          /\ stats' = CoverageStats(result, s)
          /\ call' = [op |-> "coverage_stats", sensitivity_dbm |-> s]
    /\ pc' = "stats"
    /\ UNCHANGED <<placeVars, appVars, envVars, result, rng>>

NextSim == AddTransmitter \/ RunSimulation \/ CallCoverageStats

SpecSim == InitSim /\ [][NextSim]_vars

\* C1 as stated: after a run on at least one transmitter, best_rssi is the
\* element-wise maximum of the grids stored in result.rssi and best_snr
\* that of the grids stored in result.snr, labels empty or duplicated
\* included.
C1_BestIsMaxOfStored ==
    result.ran /\ Len(transmitters) >= 1 =>
        /\ result.best_rssi = MaxReduce(dims, Range(result.rssi))
        /\ result.best_snr = MaxReduce(dims, Range(result.snr))

\* C2 as stated: with zero transmitters and the default thresholds,
\* coverage_pct = 0.0 and mean_snr_db = 0.0, best_rssi is the noise floor
\* and best_snr is zero at every cell.
C2_NoTransmitterNoCoverage ==
    /\ stats.computed
    /\ Len(transmitters) = 0
    /\ call.sensitivity_dbm = DefaultSensitivity
    => /\ stats.coverage_pct = 0
       /\ stats.mean_snr_db = 0
       /\ \A c \in Cells(dims) :
             result.best_rssi[c] = DefaultNoiseFloor /\ result.best_snr[c] = 0

\* the power of noise source ns received at cell c, in centi-dBm
ReceivedNoise(sim, d, obs, ns, c) ==
    ns.power_dbm
      - (PathLoss(sim, DistanceSqGrid(d, <<ns.x, ns.y>>)[c], ns.frequency_mhz)
         + ObstacleAttenuationGrid(d, obs, <<ns.x, ns.y>>)[c])

\* noise floor + the received powers of nss[1 .. i] at cell c, in linear
\* power, the floor taken first
RECURSIVE FloorPlusSources(_, _, _, _, _, _)
FloorPlusSources(sim, d, obs, nss, i, c) ==
    IF i = 0 THEN DbToLin(sim.noise_floor_dbm)
    ELSE LinAdd(FloorPlusSources(sim, d, obs, nss, i - 1, c),
                DbToLin(ReceivedNoise(sim, d, obs, nss[i], c)))

\* C15: after a run the interference at every cell is the noise floor plus
\* the received powers of all noise sources, summed in linear power and
\* converted to dB at the end (to the last digit kept, whatever the order
\* of the sum); it is never below the noise floor, it is the noise floor
\* without noise sources, and a further noise source never lowers it.
C15_InterferenceIsLinearSum ==
    pc = "ran" =>
        \A c \in Cells(dims) :
            /\ Abs(result.interference[c]
                   - LinToDb(FloorPlusSources(DefaultSimulation, dims, obstacles,
                                              noise_sources, Len(noise_sources), c))) <= 1
            /\ result.interference[c] >= DefaultNoiseFloor
            /\ noise_sources = <<>> => result.interference[c] = DefaultNoiseFloor
            /\ \A ns \in NoisePool :
                  InterferenceGrid(DefaultSimulation, dims, obstacles,
                                   Append(noise_sources, ns))[c]
                      >= result.interference[c]

\* two noise sources, and a cell where they lift the interference more than
\* 3 dB above the stronger of floor and single sources
C15_Witness_TwoSources ==
    /\ pc = "ran"
    /\ Len(noise_sources) = 2
    /\ \E c \in Cells(dims) :
          /\ result.interference[c] > DefaultNoiseFloor + 300
          /\ \A i \in 1 .. 2 :
                result.interference[c]
                  > ReceivedNoise(DefaultSimulation, dims, obstacles, noise_sources[i], c) + 50

RemoveAt(seq, i) == SubSeq(seq, 1, i - 1) \o SubSeq(seq, i + 1, Len(seq))

\* the result of the default Simulation on the Environment with other
\* device lists
RunWith(txs, nss) == SimulationRun(DefaultSimulation, dims, obstacles, txs, nss)

\* C16: with fading disabled, signal and interference are independent.  A
\* further noise source leaves every per-label RSSI grid, best_rssi,
\* covered_points and coverage_pct unchanged; a further transmitter, or the
\* removal of one, leaves the interference grid unchanged.
C16_SignalAndInterferenceIndependent ==
    pc = "ran" =>
        /\ \A ns \in NoisePool :
              \E r \in { RunWith(transmitters, Append(noise_sources, ns)) } :
                  /\ r.rssi = result.rssi
                  /\ r.best_rssi = result.best_rssi
                  /\ \A s \in Sensitivities :
                        /\ CoverageStats(r, s).covered_points
                              = CoverageStats(result, s).covered_points
                        /\ CoverageStats(r, s).coverage_pct
                              = CoverageStats(result, s).coverage_pct
        /\ \A tx \in { t \in TransmitterPool : t.label = "a" } :
              RunWith(Append(transmitters, tx), noise_sources).interference
                  = result.interference
        /\ \A i \in 1 .. Len(transmitters) :
              RunWith(RemoveAt(transmitters, i), noise_sources).interference
                  = result.interference

\* two transmitters, and a further noise source that changes interference
\* and best SNR but, by the claim, nothing of the signal
C16_Witness_NoiseChangesSnrOnly ==
    /\ pc = "ran"
    /\ Len(transmitters) = 2
    /\ \E ns \in NoisePool :
          \E r \in { RunWith(transmitters, Append(noise_sources, ns)) } :
              /\ r.interference # result.interference
              /\ r.best_snr # result.best_snr
              /\ r.best_rssi = result.best_rssi

\* C17: after a run result.snr has exactly the labels of result.rssi, and
\* for every label and cell snr = rssi - (interference + noise_figure_db).
C17_SnrIsRssiMinusNoise ==
    pc = "ran" =>
        /\ DOMAIN result.snr = DOMAIN result.rssi
        /\ \A l \in DOMAIN result.rssi :
              \A c \in Cells(dims) :
                  result.snr[l][c]
                    = result.rssi[l][c] - (result.interference[c] + DefaultNoiseFigure)

\* two transmitters under two labels, a noise source and the wall
C17_Witness_TwoLabels ==
    /\ pc = "ran"
    /\ Cardinality(DOMAIN result.rssi) = 2
    /\ noise_sources # <<>>
    /\ obstacles # <<>>
    /\ \E c \in Cells(dims) : result.interference[c] > DefaultNoiseFloor

----------------------------------------------------------------------------
(* Specification SpecStats: SpecSim on the Environment of MaxX x MaxY      *)
(* metres and on the two Environments of zero area, which have no cells.   *)

StatsDims ==
    { SimDims,
      [width |-> 0, height |-> MaxY, resolution |-> 1],
      [width |-> MaxX, height |-> 0, resolution |-> 1] }

InitStats ==
    /\ dims \in StatsDims
    /\ transmitters = <<>>
    /\ gateways = <<>>
    /\ noise_sources \in { <<>>, <<SimNoise>> }
    /\ walls = <<>>
    /\ obstacles \in { <<>>, <<SimWall>> }
    /\ IdleSim
    /\ IdlePlace
    /\ IdleApp
    /\ call = NoCall
    /\ pc = "build"

SpecStats == InitStats /\ [][NextSim]_vars

\* C18: coverage_stats returns 0 <= covered_points <= total_points and
\* 0 <= coverage_pct <= 100, covered_points being the number of cells whose
\* best_rssi is >= the threshold and total_points the number of cells, for
\* every result and threshold, a grid without cells included.
C18_CoverageCountsInRange ==
    stats.computed =>
        /\ 0 <= stats.covered_points
        /\ stats.covered_points <= stats.total_points
        /\ 0 <= stats.coverage_pct
        /\ stats.coverage_pct <= 10000
        /\ stats.total_points = Cardinality(Cells(dims))
        /\ stats.covered_points
             = Cardinality({ c \in Cells(dims) :
                                result.best_rssi[c] >= call.sensitivity_dbm })

\* a partial coverage that counts a cell exactly at the threshold
C18_Witness_CellAtThreshold ==
    /\ stats.computed
    /\ 0 < stats.covered_points
    /\ \E c \in Cells(dims) : result.best_rssi[c] = call.sensitivity_dbm

\* a coverage strictly between nothing and everything
PartialCoverage ==
    /\ stats.computed
    /\ 0 < stats.covered_points
    /\ stats.covered_points < stats.total_points
    /\ 0 < stats.coverage_pct
    /\ stats.coverage_pct < 10000

\* C19: on a grid without cells run and coverage_stats complete and return
\* total_points 0, covered_points 0, coverage_pct 0.0 and means that are
\* numbers, not nan.
C19_ZeroAreaDefaults ==
    stats.computed /\ Cells(dims) = {} =>
        /\ stats.total_points = 0
        /\ stats.covered_points = 0
        /\ stats.coverage_pct = 0
        /\ stats.mean_rssi_dbm # NaN
        /\ stats.mean_snr_db # NaN

\* what holds without cells: both calls return, the counts and the
\* percentage are 0, and both means are nan
ZeroAreaCountsAndNaN ==
    stats.computed /\ Cells(dims) = {} =>
        /\ result.ran
        /\ stats.total_points = 0
        /\ stats.covered_points = 0
        /\ stats.coverage_pct = 0
        /\ stats.mean_rssi_dbm = NaN
        /\ stats.mean_snr_db = NaN

\* coverage_stats has returned on a grid without cells, transmitters present
ZeroAreaStatsReturned ==
    /\ stats.computed
    /\ Cells(dims) = {}
    /\ Len(transmitters) >= 1

----------------------------------------------------------------------------
(* Placement: analysis/placement.py.  A score is an integer in units of    *)
(* 1e-4: the weights are in hundredths and the statistics in hundredths.   *)
(* best_score is a record so that -inf has a value: [finite, v].           *)

WCoverage == 100
WMeanSnr == 10
WMinSnr == 5

\* the keyword arguments suggest_gateway_positions hands to coverage_score
\* (131-139), at their defaults but for the sensitivity
ScoreKwargs(sens) ==
    [pathloss_model |-> "log-distance", pathloss_exponent |-> DefaultExponent,
     noise_floor_dbm |-> DefaultNoiseFloor, sensitivity_dbm |-> sens,
     w_coverage |-> WCoverage, w_mean_snr |-> WMeanSnr, w_min_snr |-> WMinSnr]

\* the Simulation that coverage_score constructs (51-53)
ScoreSimulation(kw) ==
    [pathloss_model |-> kw.pathloss_model, pathloss_exponent |-> kw.pathloss_exponent,
     noise_floor_dbm |-> kw.noise_floor_dbm, noise_figure_db |-> DefaultNoiseFigure]

\* one virtual transmitter per gateway (40-46)
VirtualTxs(gws) ==
    [i \in 1 .. Len(gws) |->
        Transmitter(gws[i].x, gws[i].y, gws[i].protocol,
                    gws[i].protocol.max_tx_power_dbm, gws[i].antenna_gain_dbi, "")]

\* float(np.min(grid)) of a non-empty grid
MinOver(g) == CHOOSE v \in Range(g) : \A u \in Range(g) : v <= u

\* the weighted sum returned at line 64
WeightedScore(kw, cov_pct, mean_snr, min_snr) ==
    kw.w_coverage * cov_pct + kw.w_mean_snr * mean_snr + kw.w_min_snr * min_snr

\* the locals of one activation of coverage_score; entry_gateways and
\* entry_transmitters remember the Environment at the moment of the call
IdleFrame ==
    [pc |-> "idle", gateways |-> <<>>, kw |-> ScoreKwargs(DefaultSensitivity),
     entry_gateways |-> <<>>, entry_transmitters |-> <<>>,
     saved_gw |-> <<>>, saved_tx |-> <<>>,
     cov_pct |-> 0, mean_snr |-> 0, min_snr |-> 0, score |-> 0]

EnterCoverageScore(gws, kw) ==
    [IdleFrame EXCEPT !.pc = "entry", !.gateways = gws, !.kw = kw,
                      !.entry_gateways = gateways,
                      !.entry_transmitters = transmitters]

\* line 34: saved_gw = list(env.gateways)
CoverageScoreSaveGateways(w) ==
    /\ frames[w].pc = "entry"
    /\ frames' = [frames EXCEPT ![w].saved_gw = gateways, ![w].pc = "saved_gw"]
    /\ UNCHANGED <<envVars, simVars, call, pc, placed, suggestions, search, appVars>>

\* line 35: env.gateways = list(gateways)
CoverageScoreAssignGateways(w) ==
    /\ frames[w].pc = "saved_gw"
    /\ gateways' = frames[w].gateways
    /\ frames' = [frames EXCEPT ![w].pc = "gateways"]
    /\ UNCHANGED <<dims, transmitters, noise_sources, walls, obstacles, simVars, call, pc,
                   placed, suggestions, search, appVars>>

\* gw.protocol.max_tx_power_dbm can be read (line 43)
HasMaxTxPower(gw) == "max_tx_power_dbm" \in DOMAIN gw.protocol

\* lines 39-48: virtual_txs is built from the argument alone; reading
\* max_tx_power_dbm of a protocol without the attribute raises AttributeError
\* inside the loop, before env.transmitters is read at line 48
CoverageScoreSaveTransmitters(w) ==
    /\ frames[w].pc = "gateways"
    /\ IF \A i \in 1 .. Len(frames[w].gateways) : HasMaxTxPower(frames[w].gateways[i])
       THEN frames' = [frames EXCEPT ![w].saved_tx = transmitters, ![w].pc = "saved_tx"]
       ELSE frames' = [frames EXCEPT ![w].pc = "raised"]
    /\ UNCHANGED <<envVars, simVars, call, pc, placed, suggestions, search, appVars>>

\* a plausible slip: the virtual transmitters join the Environment's own
CoverageScoreKeepTransmitters(w) ==
    /\ frames[w].pc = "saved_tx"
    /\ transmitters' = transmitters \o VirtualTxs(frames[w].gateways)
    /\ frames' = [frames EXCEPT ![w].pc = "transmitters"]
    /\ UNCHANGED <<dims, gateways, noise_sources, walls, obstacles, simVars, call, pc,
                   placed, suggestions, search, appVars>>

\* line 49: env.transmitters = virtual_txs
CoverageScoreAssignTransmitters(w) ==
    /\ frames[w].pc = "saved_tx"
    /\ transmitters' = VirtualTxs(frames[w].gateways)
    /\ frames' = [frames EXCEPT ![w].pc = "transmitters"]
    /\ UNCHANGED <<dims, gateways, noise_sources, walls, obstacles, simVars, call, pc,
                   placed, suggestions, search, appVars>>

\* lines 51-59: the simulation of the Environment as it is now (run reads
\* env.transmitters once, at the head of its loop); np.min of an empty grid
\* raises ValueError and the exception leaves coverage_score
CoverageScoreSimulate(w) ==
    /\ frames[w].pc = "transmitters"
    /\ IF Cells(dims) = {}
       THEN frames' = [frames EXCEPT ![w].pc = "raised"]
       ELSE \E res \in { SimulationRun(ScoreSimulation(frames[w].kw), dims, obstacles,
                                        transmitters, noise_sources) } :
               \E st \in { CoverageStats(res, frames[w].kw.sensitivity_dbm) } :
                  frames' = [frames EXCEPT ![w].cov_pct = st.coverage_pct,
                                           ![w].mean_snr = st.mean_snr_db,
                                           ![w].min_snr = MinOver(res.best_snr),
                                           ![w].pc = "simulated"]
    /\ UNCHANGED <<envVars, simVars, call, pc, placed, suggestions, search, appVars>>

\* line 61: env.gateways = saved_gw
CoverageScoreRestoreGateways(w) ==
    /\ frames[w].pc = "simulated"
    /\ gateways' = frames[w].saved_gw
    /\ frames' = [frames EXCEPT ![w].pc = "restored_gw"]
    /\ UNCHANGED <<dims, transmitters, noise_sources, walls, obstacles, simVars, call, pc,
                   placed, suggestions, search, appVars>>

\* a plausible slip: the transmitters are not put back
CoverageScoreLeaveTransmitters(w) ==
    /\ frames[w].pc = "restored_gw"
    /\ frames' = [frames EXCEPT ![w].pc = "restored"]
    /\ UNCHANGED <<envVars, simVars, call, pc, placed, suggestions, search, appVars>>

\* line 62: env.transmitters = saved_tx
CoverageScoreRestoreTransmitters(w) ==
    /\ frames[w].pc = "restored_gw"
    /\ transmitters' = frames[w].saved_tx
    /\ frames' = [frames EXCEPT ![w].pc = "restored"]
    /\ UNCHANGED <<dims, gateways, noise_sources, walls, obstacles, simVars, call, pc,
                   placed, suggestions, search, appVars>>

\* line 64: the weighted sum is returned
CoverageScoreReturn(w) ==
    /\ frames[w].pc = "restored"
    /\ frames' = [frames EXCEPT
          ![w].score = WeightedScore(frames[w].kw, frames[w].cov_pct,
                                     frames[w].mean_snr, frames[w].min_snr),
          ![w].pc = "returned"]
    /\ UNCHANGED <<envVars, simVars, call, pc, placed, suggestions, search, appVars>>

\* Decimal fractions of a metre.  In an Environment of unit DecimalUnit a
\* length is the integer 100 * t + u that stands for the IEEE double u ulps
\* away from the double nearest to t / 10 metres: 1300 is the double 1.3 and
\* 1301 is its successor 1.3000000000000003.  The order of the doubles is the
\* order of the integers.
DecimalUnit == Pow10(3)

\* np.arange on doubles takes ceil((hi - lo) / step) elements and fills them
\* with lo + i * delta, delta = (lo + step) - lo.  On whole metres all of it
\* is exact.  For the decimal arguments below the double quotient lies above
\* the exact one, e.g. (1.3 - 1.0) / 0.1 = 3.0000000000000004, and one more
\* element is taken; the elements listed lie above the decimal they stand
\* for, e.g. 1.0 + 3 * 0.10000000000000009 = 1.3000000000000003.
ArangeQuotientUp == { <<1000, 1300, 100>> }
ArangeFillUlps == (<<1000, 100, 2>> :> 1) @@ (<<1000, 100, 3>> :> 1)

\* np.arange(lo, hi, step), in order, in an Environment of unit u
ArangeSeq(u, lo, hi, step) ==
    LET up == u = DecimalUnit /\ <<lo, hi, step>> \in ArangeQuotientUp
        n == (IF hi > lo THEN (hi - lo + step - 1) \div step ELSE 0)
             + (IF up THEN 1 ELSE 0)
    IN  [i \in 1 .. n |->
            lo + (i - 1) * step
               + (IF u = DecimalUnit /\ <<lo, step, i - 1>> \in DOMAIN ArangeFillUlps
                  THEN ArangeFillUlps[<<lo, step, i - 1>>] ELSE 0)]

\* the candidates of two nested loops, x outside and y inside
NestedLoops(xs, ys) ==
    [k \in 1 .. Len(xs) * Len(ys) |->
        <<xs[((k - 1) \div Len(ys)) + 1], ys[((k - 1) % Len(ys)) + 1]>>]

\* lines 146-147
CoarseQueue(d, step) ==
    NestedLoops(ArangeSeq(UnitOf(d), 0, d.width, step),
                ArangeSeq(UnitOf(d), 0, d.height, step))

\* lines 158-164
FineQueue(d, pos, radius, step) ==
    NestedLoops(
        ArangeSeq(UnitOf(d), Max2(0, pos[1] - radius),
                  Min2(d.width, pos[1] + radius), step),
        ArangeSeq(UnitOf(d), Max2(0, pos[2] - radius),
                  Min2(d.height, pos[2] + radius), step))

NegInf == [finite |-> FALSE, v |-> 0]
Finite(s) == [finite |-> TRUE, v |-> s]

\* score > best_score
Greater(score, best) == ~best.finite \/ score > best.v

\* round(best_score, 2); -inf stays -inf
RoundScore(best) ==
    IF best.finite THEN Finite(RoundHalfEven(best.v, 100)) ELSE best

\* lines 143-147: the locals at the head of the loop body for gateway gw_idx;
\* evaluated and history remember which candidates were scored, for the
\* current gateway and for the finalized ones
StartGateway(gw_idx, history) ==
    [phase |-> "coarse", gw_idx |-> gw_idx,
     queue |-> CoarseQueue(dims, call.coarse_step),
     best_pos |-> <<0, 0>>, best_score |-> NegInf,
     evaluated |-> {}, history |-> history]

Candidate(pos) ==
    Gateway(pos[1], pos[2], call.protocol, call.score_kwargs.sensitivity_dbm)

----------------------------------------------------------------------------
(* Specification SpecPlace: one top-level call on an Environment of        *)
(* MaxX x MaxY metres, of MaxX x 0 metres, or of 1.3 x 1.3 metres with a   *)
(* brick wall: coverage_score with a list of gateways,                     *)
(* suggest_gateway_positions or suggest_gateway_position.                  *)

MaxGateways == 2

PlaceDims == { SimDims, [width |-> MaxX, height |-> 0, resolution |-> 1] }

OwnGateway == Gateway(1, 1, LoRaWAN_EU868, DefaultSensitivity)
OwnTransmitter == Transmitter(0, MaxY - 1, LoRaWAN_EU868, 1400, 0, "a")

\* Environment(1.3, 1.3, resolution = 1.0) with one obstacle of 15 dB from
\* (0.0, 0.1) to (1.1, 0.2)
DecimalDims == [width |-> 1300, height |-> 1300, resolution |-> DecimalUnit,
                unit |-> DecimalUnit]
DecimalWall == Obstacle(<<0, 100>>, <<1100, 200>>, 1500, "brick")

\* the steps and radii of a call, 0 for None: 2 m and 1 m on whole metres,
\* 1.2 m, 0.1 m and 0.2 m on the decimal Environment
CoarseSteps(d) == IF UnitOf(d) = 1 THEN { 0, 2 } ELSE { 0, 1200 }
FineSteps(d) == IF UnitOf(d) = 1 THEN { 0 } ELSE { 100 }
FineRadii(d) == IF UnitOf(d) = 1 THEN { 0, 1 } ELSE { 200 }

GatewayLists ==
    { <<>>,
      <<Gateway(0, 0, LoRaWAN_EU868, DefaultSensitivity)>>,
      <<Gateway(0, 0, LoRaWAN_EU868, DefaultSensitivity),
        Gateway(MaxX - 1, 0, LoRaWAN_EU868, DefaultSensitivity)>> }

InitPlace ==
    /\ \/ /\ dims \in PlaceDims
          /\ \/ transmitters = <<>> /\ gateways = <<>>
             \/ transmitters = <<OwnTransmitter>> /\ gateways = <<OwnGateway>>
          /\ noise_sources \in { <<>>, <<SimNoise>> }
          /\ walls = <<>>
          /\ obstacles \in { <<>>, <<SimWall>> }
       \/ /\ dims = DecimalDims
          /\ transmitters = <<>>
          /\ gateways = <<>>
          /\ noise_sources = <<>>
          /\ walls = <<>>
          /\ obstacles = <<DecimalWall>>
    /\ IdleSim
    /\ placed = <<>>
    /\ suggestions = <<>>
    /\ search = NoSearch
    /\ frames = [w \in { 1 } |-> IdleFrame]
    /\ IdleApp
    /\ call = NoCall
    /\ pc = "build"

\* a direct call coverage_score(env, gws, sensitivity_dbm = s)
CallCoverageScore ==
    /\ pc = "build"
    /\ \E gws \in GatewayLists, s \in Sensitivities :
          /\ frames' = [frames EXCEPT ![1] = EnterCoverageScore(gws, ScoreKwargs(s))]
          /\ call' = [op |-> "coverage_score", gateways |-> gws,
                      env_gateways |-> gateways, env_transmitters |-> transmitters]
    /\ pc' = "scoring"
    /\ UNCHANGED <<envVars, simVars, placed, suggestions, search, appVars>>

\* suggest_gateway_positions up to the first candidate (124-147); a step or
\* radius of 0 stands for None, which selects the default
CallSuggestGatewayPositions ==
    /\ pc = "build"
    /\ \E n \in 0 .. MaxGateways, cs \in CoarseSteps(dims), fs \in FineSteps(dims),
          fr \in FineRadii(dims), s \in Sensitivities :
          LET coarse == IF cs # 0 THEN cs ELSE dims.resolution * 5
              fine == IF fs # 0 THEN fs ELSE dims.resolution
              radius == IF fr # 0 THEN fr ELSE coarse
          IN  call' = [op |-> "suggest_gateway_positions",
                       protocol |-> LoRaWAN_EU868, n_gateways |-> n,
                       coarse_step |-> coarse, fine_step |-> fine,
                       fine_radius |-> radius, score_kwargs |-> ScoreKwargs(s),
                       env_gateways |-> gateways,
                       env_transmitters |-> transmitters]
    /\ placed' = <<>>
    /\ suggestions' = <<>>
    /\ search' = [phase |-> IF call'.n_gateways > 0 THEN "coarse" ELSE "done",
                  gw_idx |-> 0,
                  queue |-> IF call'.n_gateways > 0
                            THEN CoarseQueue(dims, call'.coarse_step) ELSE <<>>,
                  best_pos |-> <<0, 0>>, best_score |-> NegInf,
                  evaluated |-> {}, history |-> <<>>]
    /\ pc' = IF call'.n_gateways > 0 THEN "searching" ELSE "done"
    /\ UNCHANGED <<envVars, simVars, frames, appVars>>

\* lines 148-152 and 165-169: the next candidate goes to coverage_score
SearchEvaluate ==
    /\ pc = "searching"
    /\ search.phase \in { "coarse", "fine" }
    /\ search.queue # <<>>
    /\ frames[1].pc = "idle"
    /\ frames' = [frames EXCEPT ![1] =
          EnterCoverageScore(Append(placed, Candidate(Head(search.queue))),
                             call.score_kwargs)]
    /\ UNCHANGED <<envVars, simVars, call, pc, placed, suggestions, search, appVars>>

\* lines 153-155 and 170-172
SearchCompare ==
    /\ pc = "searching"
    /\ frames[1].pc = "returned"
    /\ LET cand == Head(search.queue)
           score == frames[1].score
           better == Greater(score, search.best_score)
       IN  search' = [search EXCEPT
              !.queue = Tail(@),
              !.best_score = IF better THEN Finite(score) ELSE @,
              !.best_pos = IF better THEN cand ELSE @,
              !.evaluated = @ \cup { [gateways |-> frames[1].gateways,
                                      pos |-> cand, score |-> score] }]
    /\ frames' = [frames EXCEPT ![1] = IdleFrame]
    /\ UNCHANGED <<envVars, simVars, call, pc, placed, suggestions, appVars>>

\* lines 158-164: the coarse loops are over, the fine window is laid out
SearchRefine ==
    /\ pc = "searching"
    /\ search.phase = "coarse"
    /\ search.queue = <<>>
    /\ frames[1].pc = "idle"
    /\ search' = [search EXCEPT
          !.phase = "fine",
          !.queue = FineQueue(dims, search.best_pos, call.fine_radius, call.fine_step)]
    /\ UNCHANGED <<envVars, simVars, call, pc, placed, suggestions, frames, appVars>>

\* a plausible slip: the rank is the loop index, counted from 0
SearchRecordRankFromZero ==
    /\ pc = "searching"
    /\ search.phase = "fine"
    /\ search.queue = <<>>
    /\ frames[1].pc = "idle"
    /\ placed' = Append(placed, Candidate(search.best_pos))
    /\ suggestions' = Append(suggestions,
          [rank |-> search.gw_idx, x |-> search.best_pos[1],
           y |-> search.best_pos[2], score |-> RoundScore(search.best_score)])
    /\ IF search.gw_idx + 1 < call.n_gateways
       THEN /\ search' = StartGateway(search.gw_idx + 1,
                                      Append(search.history, search.evaluated))
            /\ pc' = pc
       ELSE /\ search' = [search EXCEPT !.phase = "done", !.evaluated = {},
                             !.history = Append(@, search.evaluated)]
            /\ pc' = "done"
    /\ UNCHANGED <<envVars, simVars, call, frames, appVars>>

\* lines 174-186, and 141-147 for the next gateway
SearchRecord ==
    /\ pc = "searching"
    /\ search.phase = "fine"
    /\ search.queue = <<>>
    /\ frames[1].pc = "idle"
    /\ placed' = Append(placed, Candidate(search.best_pos))
    /\ suggestions' = Append(suggestions,
          [rank |-> search.gw_idx + 1, x |-> search.best_pos[1],
           y |-> search.best_pos[2], score |-> RoundScore(search.best_score)])
    /\ IF search.gw_idx + 1 < call.n_gateways
       THEN /\ search' = StartGateway(search.gw_idx + 1,
                                      Append(search.history, search.evaluated))
            /\ pc' = pc
       ELSE /\ search' = [search EXCEPT !.phase = "done", !.evaluated = {},
                             !.history = Append(@, search.evaluated)]
            /\ pc' = "done"
    /\ UNCHANGED <<envVars, simVars, call, frames, appVars>>

\* The legacy suggest_gateway_position (71-97).  search.best is the tuple
\* (best_x, best_y, coverage_pct), the coverage in hundredths of a percent.

\* lines 81-84: a step of 0 stands for None
CallSuggestGatewayPosition ==
    /\ pc = "build"
    /\ \E st \in CoarseSteps(dims), s \in Sensitivities :
          call' = [op |-> "suggest_gateway_position", protocol |-> LoRaWAN_EU868,
                   sensitivity_dbm |-> s,
                   step |-> IF st # 0 THEN st ELSE dims.resolution * 5,
                   env_gateways |-> gateways, env_transmitters |-> transmitters]
    /\ search' = [phase |-> "legacy", queue |-> CoarseQueue(dims, call'.step),
                  best |-> <<0, 0, 0>>, env_copy_gw |-> <<>>,
                  coverage_pct |-> 0, trying |-> FALSE]
    /\ pc' = "legacy"
    /\ UNCHANGED <<envVars, simVars, placed, suggestions, frames, appVars>>

\* lines 86-91: the candidate replaces env.gateways and a default Simulation
\* of the Environment is run
LegacyTry ==
    /\ pc = "legacy"
    /\ search.queue # <<>>
    /\ ~search.trying
    /\ gateways' = <<Gateway(Head(search.queue)[1], Head(search.queue)[2],
                             call.protocol, call.sensitivity_dbm)>>
    /\ \E res \in { SimulationRun(DefaultSimulation, dims, obstacles,
                                   transmitters, noise_sources) } :
          search' = [search EXCEPT
             !.env_copy_gw = gateways,
             !.coverage_pct = CoverageStats(res, call.sensitivity_dbm).coverage_pct,
             !.trying = TRUE]
    /\ UNCHANGED <<dims, transmitters, noise_sources, walls, obstacles, simVars, call, pc,
                   placed, suggestions, frames, appVars>>

\* a plausible slip: a candidate that ties with the best replaces it
LegacyCompareNotStrict ==
    /\ pc = "legacy"
    /\ search.trying
    /\ gateways' = search.env_copy_gw
    /\ search' = [search EXCEPT
          !.best = IF search.coverage_pct >= search.best[3]
                   THEN <<Head(search.queue)[1], Head(search.queue)[2],
                          search.coverage_pct>>
                   ELSE @,
          !.queue = Tail(@),
          !.trying = FALSE]
    /\ UNCHANGED <<dims, transmitters, noise_sources, walls, obstacles, simVars, call, pc,
                   placed, suggestions, frames, appVars>>

\* lines 92-95
LegacyCompare ==
    /\ pc = "legacy"
    /\ search.trying
    /\ gateways' = search.env_copy_gw
    /\ search' = [search EXCEPT
          !.best = IF search.coverage_pct > search.best[3]
                   THEN <<Head(search.queue)[1], Head(search.queue)[2],
                          search.coverage_pct>>
                   ELSE @,
          !.queue = Tail(@),
          !.trying = FALSE]
    /\ UNCHANGED <<dims, transmitters, noise_sources, walls, obstacles, simVars, call, pc,
                   placed, suggestions, frames, appVars>>

\* line 97
LegacyReturn ==
    /\ pc = "legacy"
    /\ search.queue = <<>>
    /\ ~search.trying
    /\ pc' = "legacy_done"
    /\ UNCHANGED <<envVars, simVars, call, placeVars, appVars>>

NextPlace ==
    \/ CallCoverageScore
    \/ CallSuggestGatewayPositions
    \/ CallSuggestGatewayPosition
    \/ LegacyTry
    \/ LegacyCompare
    \/ LegacyReturn
    \/ \E w \in DOMAIN frames :
          \/ CoverageScoreSaveGateways(w)
          \/ CoverageScoreAssignGateways(w)
          \/ CoverageScoreSaveTransmitters(w)
          \/ CoverageScoreAssignTransmitters(w)
          \/ CoverageScoreSimulate(w)
          \/ CoverageScoreRestoreGateways(w)
          \/ CoverageScoreRestoreTransmitters(w)
          \/ CoverageScoreReturn(w)
    \/ SearchEvaluate
    \/ SearchCompare
    \/ SearchRefine
    \/ SearchRecord

SpecPlace == InitPlace /\ [][NextPlace]_vars

\* the score of a list of gateways computed in one piece, from the
\* Environment with the virtual transmitters in place of its own
CoverageScoreValue(kw, gws) ==
    LET res == SimulationRun(ScoreSimulation(kw), dims, obstacles,
                             VirtualTxs(gws), noise_sources)
        st == CoverageStats(res, kw.sensitivity_dbm)
    IN  WeightedScore(kw, st.coverage_pct, st.mean_snr_db, MinOver(res.best_snr))

\* C5: whenever an activation of coverage_score has returned, env.gateways
\* and env.transmitters are the lists of the moment of its call; and during
\* suggest_gateway_positions, between trials, at the entry of every trial
\* and at the return to the caller, they are the caller's lists.
C5_EnvListsRestored ==
    /\ \A w \in DOMAIN frames :
          frames[w].pc = "returned" =>
             /\ gateways = frames[w].entry_gateways
             /\ transmitters = frames[w].entry_transmitters
    /\ pc \in { "scoring", "searching", "done" } =>
          \A w \in DOMAIN frames :
             frames[w].pc \in { "idle", "entry", "returned" } =>
                /\ gateways = call.env_gateways
                /\ transmitters = call.env_transmitters

\* two gateways were placed on an Environment that had a gateway and a
\* transmitter of its own
C5_Witness_SearchReturned ==
    /\ pc = "done"
    /\ Len(suggestions) = 2
    /\ gateways = <<OwnGateway>>
    /\ transmitters = <<OwnTransmitter>>
    /\ Cardinality(search.history[2]) >= 2

MaxScore(ev) == CHOOSE m \in { e.score : e \in ev } : \A e \in ev : e.score <= m

\* the property of C10 for the record of gateway k
RecordIsBestEvaluated(k) ==
    LET ev == search.history[k]
        rec == suggestions[k]
    IN  /\ \A e \in ev :
              e.gateways = Append(SubSeq(placed, 1, k - 1), Candidate(e.pos))
        /\ \E e \in ev :
              /\ e.pos = <<rec.x, rec.y>>
              /\ e.score = MaxScore(ev)
              /\ rec.score = RoundScore(Finite(e.score))
        /\ placed[k] = Candidate(<<rec.x, rec.y>>)

\* C10 as stated: every record holds a position that was evaluated for its
\* gateway, in the coarse phase or in the fine pass, and the rounded maximum
\* of the scores of the evaluated candidates, each scored together with the
\* gateways finalized before it.
C10_RecordedIsBestEvaluated ==
    \A k \in 1 .. Len(suggestions) : RecordIsBestEvaluated(k)

\* the same on an Environment with at least one cell
RecordedIsBestOnPositiveArea ==
    Cells(dims) # {} => \A k \in 1 .. Len(suggestions) : RecordIsBestEvaluated(k)

\* every score coverage_score returns in SpecPlace is the score of its
\* argument computed in one piece
ReturnedScoreIsValue ==
    \A w \in DOMAIN frames :
       frames[w].pc = "returned" =>
          frames[w].score = CoverageScoreValue(frames[w].kw, frames[w].gateways)

\* the fine pass never lowers the best score and no finalized gateway moves
FinePassKeepsBest ==
    [][/\ (search.phase = "fine" /\ search'.phase = "fine" =>
              \/ ~search.best_score.finite
              \/ /\ search'.best_score.finite
                 /\ search'.best_score.v >= search.best_score.v)
       /\ SubSeq(placed', 1, Len(placed)) = placed]_vars

\* C11: suggest_gateway_positions returns exactly n_gateways records with
\* the keys rank, x, y and score; record k has rank k and the position of
\* the k-th placed gateway; and while the candidates of gateway k+1 are
\* searched, the k gateways before it are already in the placed list.
C11_OneRecordPerGateway ==
    pc \in { "searching", "done" } =>
        /\ Len(suggestions) = Len(placed)
        /\ \A k \in 1 .. Len(suggestions) :
              /\ DOMAIN suggestions[k] = { "rank", "x", "y", "score" }
              /\ suggestions[k].rank = k
              /\ placed[k] = Candidate(<<suggestions[k].x, suggestions[k].y>>)
        /\ search.phase \in { "coarse", "fine" } => Len(placed) = search.gw_idx
        /\ pc = "done" => Len(suggestions) = call.n_gateways

\* a search for two gateways on an Environment with cells has returned
C11_Witness_TwoRecords ==
    /\ pc = "done"
    /\ call.n_gateways = 2
    /\ Len(suggestions) = 2
    /\ suggestions[2].rank = 2
    /\ Cells(dims) # {}

InArea(x, y) == 0 <= x /\ x <= dims.width /\ 0 <= y /\ y <= dims.height

\* C12: every position in the list returned by suggest_gateway_positions
\* and the position returned by suggest_gateway_position lie in the closed
\* rectangle of the Environment: 0 <= x <= width and 0 <= y <= height.
C12_PositionsInArea ==
    /\ \A k \in 1 .. Len(suggestions) : InArea(suggestions[k].x, suggestions[k].y)
    /\ pc = "legacy_done" => InArea(search.best[1], search.best[2])

\* on whole metres both searches return inside the area
PositionsInAreaOnWholeMetres == UnitOf(dims) = 1 => C12_PositionsInArea

\* two gateways were recorded on whole metres, one of them next to the
\* right border
WholeMetresAwayFromOrigin ==
    /\ pc = "done"
    /\ UnitOf(dims) = 1
    /\ Len(suggestions) = 2
    /\ \E k \in 1 .. 2 : suggestions[k].x = MaxX - 1

\* the legacy search has returned a position of full coverage
LegacyReturned ==
    /\ pc = "legacy_done"
    /\ search.best[3] > 0

\* a >= b for scores that may be -inf
ScoreGeq(a, b) == ~b.finite \/ (a.finite /\ a.v >= b.v)

\* C13: the list returned by suggest_gateway_positions is sorted by score,
\* best first: the score of every record is >= the score of the next one.
C13_SortedByScore ==
    pc = "done" =>
        \A k \in 1 .. Len(suggestions) - 1 :
            ScoreGeq(suggestions[k].score, suggestions[k + 1].score)

\* what the code does keep in order is the rank: the list is in the order
\* in which the gateways were placed
ReturnedInPlacementOrder ==
    pc = "done" =>
        \A k \in 1 .. Len(suggestions) - 1 :
            suggestions[k].rank < suggestions[k + 1].rank

----------------------------------------------------------------------------
(* The web application: app.py run_simulation 326-468 and                  *)
(* _apply_obstacle_shadows 233-323.  A device is the dict of the request   *)
(* with its position already in metres; a key the request leaves out is    *)
(* a field the record does not have.  Devices are LoRaWAN endpoints,       *)
(* LoRaWAN gateways and power meters at the default elevation; fading is   *)
(* switched off and the environment type is "urban".  The resolution is    *)
(* even, so that the cell centres are integers.                            *)

DevGet(dev, key, default) == IF key \in DOMAIN dev THEN dev[key] ELSE default

LoRaWAN_US915 == Protocol(915, 3000)

IsPowerMeter(dev) == DevGet(dev, "type", "") = "power_meter"

\* label = dev.get("label", dtype), line 354
DeviceLabel(dev) == DevGet(dev, "label", DevGet(dev, "type", ""))

\* the Transmitter of a LoRaWAN device, lines 398-418
DeviceTransmitter(dev) ==
    IF dev.type = "lorawan_gateway"
    THEN Transmitter(dev.x, dev.y, LoRaWAN_US915, 1400,
                     DevGet(dev, "antenna_gain_dbi", 600), DeviceLabel(dev))
    ELSE Transmitter(dev.x, dev.y, LoRaWAN_US915, DevGet(dev, "tx_power_dbm", 1400),
                     0, DeviceLabel(dev))

\* the NoiseSource of a power meter, lines 360-369
DeviceNoiseSource(dev) ==
    NoiseSource(dev.x, dev.y, DevGet(dev, "tx_power_dbm", 2000) + 1500,
                DevGet(dev, "frequency_mhz", 925))

\* the tuple appended to device_info, lines 370, 407, 418; bw in kHz
DeviceInfo(dev) ==
    IF IsPowerMeter(dev)
    THEN [freq |-> DevGet(dev, "frequency_mhz", 925), bw |-> DevGet(dev, "bandwidth_khz", 50000),
          x |-> dev.x, y |-> dev.y, pwr |-> DevGet(dev, "tx_power_dbm", 2000),
          tech |-> "power_meter"]
    ELSE [freq |-> LoRaWAN_US915.frequency_mhz, bw |-> DevGet(dev, "bandwidth_khz", 125),
          x |-> dev.x, y |-> dev.y,
          pwr |-> IF dev.type = "lorawan_gateway" THEN 1400
                  ELSE DevGet(dev, "tx_power_dbm", 1400),
          tech |-> "lorawan"]

\* freqs_overlap 130-135, both sides multiplied by 2000
FreqsOverlap(f1, bw1, f2, bw2) ==
    /\ 2000 * f1 - bw1 < 2000 * f2 + bw2
    /\ 2000 * f2 - bw2 < 2000 * f1 + bw1

\* the noise sources of the inter-device loop 440-450, in loop order
InterferenceSources(info) ==
    LET n == Len(info)
        pairs == [k \in 1 .. n * n |-> <<((k - 1) \div n) + 1, ((k - 1) % n) + 1>>]
        kept == SelectSeq(pairs, LAMBDA p :
                    /\ p[1] # p[2]
                    /\ info[p[1]].tech # "power_meter"
                    /\ info[p[2]].tech # "power_meter"
                    /\ FreqsOverlap(info[p[1]].freq, info[p[1]].bw,
                                    info[p[2]].freq, info[p[2]].bw))
    IN  [k \in 1 .. Len(kept) |->
            NoiseSource(info[kept[k][1]].x, info[kept[k][1]].y,
                        info[kept[k][1]].pwr - 1000, info[kept[k][1]].freq)]

RECURSIVE AllSegments(_)
AllSegments(rects) ==
    IF rects = <<>> THEN <<>>
    ELSE RectToObstacleSegments(Head(rects)) \o AllSegments(Tail(rects))

\* ENV_PATH_LOSS_EXPONENT.get(environment_type, 2.7), in tenths
EnvPathLossExponent(t) ==
    CASE t = "urban" -> 27
      [] t = "suburban" -> 24
      [] t = "rural" -> 20
      [] OTHER -> 27

\* the Simulation of lines 453-461
AppSimulation(cfg) ==
    [pathloss_model |-> "log-distance",
     pathloss_exponent |-> EnvPathLossExponent(cfg.environment_type),
     noise_floor_dbm |-> DefaultNoiseFloor, noise_figure_db |-> DefaultNoiseFigure]

\* the centre of a cell, lines 273-275
CellCentre(d, c) ==
    <<c[2] * d.resolution + d.resolution \div 2, c[1] * d.resolution + d.resolution \div 2>>

\* the first device of the request within a metre of (x, y), lines 288-297
FirstDeviceAt(devs, x, y) ==
    LET i == CHOOSE k \in 1 .. Len(devs) :
                 /\ Abs(devs[k].x - x) < 1 /\ Abs(devs[k].y - y) < 1
                 /\ \A j \in 1 .. k - 1 : ~(Abs(devs[j].x - x) < 1 /\ Abs(devs[j].y - y) < 1)
    IN  devs[i]

\* tx_label_map 283-297 as the sequence of its items in insertion order
RECURSIVE TxLabelLoop(_, _, _, _)
TxLabelLoop(devs, info, i, map) ==
    IF i > Len(info) THEN map
    ELSE IF info[i].tech = "power_meter" THEN TxLabelLoop(devs, info, i + 1, map)
    ELSE LET key == <<info[i].x, info[i].y>>
             lbl == DevGet(FirstDeviceAt(devs, key[1], key[2]), "label", "")
             known == { k \in 1 .. Len(map) : map[k].key = key }
         IN  IF known = {}
             THEN TxLabelLoop(devs, info, i + 1,
                              Append(map, [key |-> key, labels |-> <<lbl>>]))
             ELSE TxLabelLoop(devs, info, i + 1,
                      [k \in 1 .. Len(map) |->
                          IF k \in known
                          THEN [map[k] EXCEPT !.labels = Append(@, lbl)]
                          ELSE map[k]])

TxLabelMap(devs, info) == TxLabelLoop(devs, info, 1, <<>>)

\* att_grid of one transmitter position, lines 301-308
RECURSIVE ShadowSum(_, _, _)
ShadowSum(rects, tx, cell) ==
    IF rects = <<>> THEN 0
    ELSE RectShadow(tx, cell, Head(rects)) + ShadowSum(Tail(rects), tx, cell)

ShadowGrid(d, rects, tx) ==
    [c \in Cells(d) |-> ShadowSum(rects, tx, CellCentre(d, c))]

\* lines 311-315 for one dict of grids: every label of the list that is a
\* key has att_grid subtracted, once per occurrence
RECURSIVE SubtractLoop(_, _, _)
SubtractLoop(grids, labels, att) ==
    IF labels = <<>> THEN grids
    ELSE LET l == Head(labels)
         IN  SubtractLoop(
                 IF l \in DOMAIN grids
                 THEN [grids EXCEPT ![l] = [c \in DOMAIN att |-> @[c] - att[c]]]
                 ELSE grids,
                 Tail(labels), att)

----------------------------------------------------------------------------
(* Specification SpecApp: one request of up to MaxDevices devices on a     *)
(* page of MaxX x MaxY cells of 2 m, with or without a house.              *)

MaxDevices == 2

AppPositions == { <<1, 1>>, <<2 * MaxX - 1, 2 * MaxY - 1>> }

DevicePool ==
    UNION { { [type |-> "lorawan_endpoint", x |-> p[1], y |-> p[2]],
              [type |-> "lorawan_endpoint", x |-> p[1], y |-> p[2], label |-> "a"],
              [type |-> "lorawan_gateway", x |-> p[1], y |-> p[2], label |-> "gw"],
              [type |-> "power_meter", x |-> p[1], y |-> p[2]] } : p \in AppPositions }

House == [x |-> 2, y |-> 0, w |-> 2, h |-> 2 * MaxY, type |-> "house", material |-> "wood"]

DeviceLists == UNION { [1 .. n -> DevicePool] : n \in 0 .. MaxDevices }

InitApp ==
    /\ IdleEnv
    /\ IdleSim
    /\ IdlePlace
    /\ \E devs \in DeviceLists, rects \in { <<>>, <<House>> } :
          config = [loaded |-> TRUE, width |-> 2 * MaxX, height |-> 2 * MaxY,
                    resolution_m |-> 2, devices |-> devs, obstacles |-> rects,
                    environment_type |-> "urban",
                    shadow_fading |-> FALSE, multipath_fading |-> FALSE]
    /\ call = NoCall
    /\ pc = "config"

\* run_simulation 327-450
BuildEnvironment ==
    /\ pc = "config"
    /\ LET devs == config.devices
           info == [i \in 1 .. Len(devs) |-> DeviceInfo(devs[i])]
           txdevs == SelectSeq(devs, LAMBDA dev : ~IsPowerMeter(dev))
           pmdevs == SelectSeq(devs, IsPowerMeter)
       IN  /\ dims' = [width |-> config.width, height |-> config.height,
                       resolution |-> config.resolution_m]
           /\ obstacles' = AllSegments(config.obstacles)
           /\ transmitters' = [i \in 1 .. Len(txdevs) |-> DeviceTransmitter(txdevs[i])]
           /\ noise_sources' = [i \in 1 .. Len(pmdevs) |-> DeviceNoiseSource(pmdevs[i])]
                               \o InterferenceSources(info)
           /\ walls' = <<>>
           /\ call' = [op |-> "run_simulation", device_info |-> info, pending |-> <<>>]
    /\ pc' = "built"
    /\ UNCHANGED <<gateways, simVars, placeVars, appVars>>

\* run_simulation 453-462
AppSimulate ==
    /\ pc = "built"
    /\ result' = SimulationRun(AppSimulation(config), dims, obstacles,
                               transmitters, noise_sources)
    /\ pc' = "simulated"
    /\ UNCHANGED <<envVars, stats, rng, call, placeVars, appVars>>

\* _apply_obstacle_shadows 236-297: the two early returns, or the dict of
\* the transmitter positions and their labels
ShadowsBegin ==
    /\ pc = "simulated"
    /\ LET info == call.device_info
           txs == { i \in 1 .. Len(info) : info[i].tech # "power_meter" }
       IN  IF config.obstacles = <<>> \/ txs = {}
           THEN /\ pc' = "returned"
                /\ call' = call
           ELSE /\ pc' = "attenuating"
                /\ call' = [call EXCEPT !.pending = TxLabelMap(config.devices, info)]
    /\ UNCHANGED <<envVars, simVars, placeVars, appVars>>

\* one iteration of the loop 300-315
ShadowsApply ==
    /\ pc = "attenuating"
    /\ call.pending # <<>>
    /\ LET item == Head(call.pending)
           att == ShadowGrid(dims, config.obstacles, item.key)
       IN  result' = [result EXCEPT
              !.rssi = SubtractLoop(@, item.labels, att),
              !.snr = SubtractLoop(@, item.labels, att)]
    /\ call' = [call EXCEPT !.pending = Tail(@)]
    /\ UNCHANGED <<envVars, stats, rng, pc, placeVars, appVars>>

\* lines 317-323
ShadowsRecompute ==
    /\ pc = "attenuating"
    /\ call.pending = <<>>
    /\ result' = [result EXCEPT
          !.best_rssi = IF DOMAIN result.rssi # {}
                        THEN MaxReduce(dims, Range(result.rssi)) ELSE @,
          !.best_snr = IF DOMAIN result.snr # {}
                       THEN MaxReduce(dims, Range(result.snr)) ELSE @]
    /\ pc' = "returned"
    /\ UNCHANGED <<envVars, stats, rng, call, placeVars, appVars>>

\* run_simulation 468
AppCoverageStats ==
    /\ pc = "returned"
    /\ stats' = CoverageStats(result, DefaultSensitivity)
    /\ pc' = "stats"
    /\ UNCHANGED <<envVars, result, rng, call, placeVars, appVars>>

NextApp ==
    \/ BuildEnvironment
    \/ AppSimulate
    \/ ShadowsBegin
    \/ ShadowsApply
    \/ ShadowsRecompute
    \/ AppCoverageStats

SpecApp == InitApp /\ [][NextApp]_vars

\* C7 as stated: whenever _apply_obstacle_shadows has returned, best_rssi
\* is the element-wise maximum of the grids in result.rssi and best_snr
\* that of the grids in result.snr.
C7_AggregatesAreMaxOnReturn ==
    pc = "returned" /\ DOMAIN result.rssi # {} =>
        /\ result.best_rssi = MaxReduce(dims, Range(result.rssi))
        /\ result.best_snr = MaxReduce(dims, Range(result.snr))

\* the same for the returns that follow the recomputation
AggregatesAreMaxAfterRecompute ==
    pc = "returned" /\ config.obstacles # <<>> /\ DOMAIN result.rssi # {} =>
        /\ result.best_rssi = MaxReduce(dims, Range(result.rssi))
        /\ result.best_snr = MaxReduce(dims, Range(result.snr))

\* no per-label grid changes once the aggregates were recomputed
GridsFixedAfterRecompute ==
    [][pc = "returned" => result'.rssi = result.rssi /\ result'.snr = result.snr]_vars

----------------------------------------------------------------------------
(* Fading: core/simulation.py 89-100.  np.random.normal draws from the     *)
(* global generator of numpy, whose stream is a function of its seed; the  *)
(* state of the generator is the seed and the number of samples drawn so   *)
(* far.  StdNormal stands for the stream of standard-normal samples, in    *)
(* thousandths: what it keeps of the real generator is that a sample       *)
(* depends on the seed and on the position, and on nothing else.           *)

Seeds == { 1, 2 }

\* np.random.seed(seed)
Generator(seed) == [seeded |-> TRUE, seed |-> seed, pos |-> 0]

\* sample number k, counted from 0, after the ones already drawn from g
StdNormal(g, k) == (((g.seed * 31 + (g.pos + k) * 17) % 7) - 3) * 500

\* position of a cell in the row-major order of an array of env.shape
CellIndex(d, c) == c[1] * Cols(d) + c[2]

Simulation(std, multipath) ==
    [pathloss_model |-> "log-distance", pathloss_exponent |-> DefaultExponent,
     noise_floor_dbm |-> DefaultNoiseFloor, noise_figure_db |-> DefaultNoiseFigure,
     shadow_fading_std |-> std, multipath_fading |-> multipath]

FadingEnabled(sim) == sim.shadow_fading_std > 0 \/ sim.multipath_fading

ShadowDraws(sim, d) ==
    IF sim.shadow_fading_std > 0 THEN Cardinality(Cells(d)) ELSE 0
MultipathDraws(sim, d) ==
    IF sim.multipath_fading THEN 2 * Cardinality(Cells(d)) ELSE 0

\* lines 90-92: np.random.normal(0, std, rssi.shape), drawn from sample off on
ShadowFading(sim, d, g, off) ==
    [c \in Cells(d) |->
        (sim.shadow_fading_std * StdNormal(g, off + CellIndex(d, c))) \div 1000]

\* lines 95-100: 20 log10(clip(sqrt(x^2 + y^2) / sqrt(2), 0.01)), x drawn
\* for every cell before y
MultipathFading(d, g, off) ==
    [c \in Cells(d) |->
        LET x == StdNormal(g, off + CellIndex(d, c))
            y == StdNormal(g, off + Cardinality(Cells(d)) + CellIndex(d, c))
            r2 == x * x + y * y
        IN  IF r2 < 200 THEN -4000
            ELSE Log10Milli(r2) - Log10Milli(2 * SqMetre)]

\* the rssi array of one transmitter with its fading (run 79-100)
FadedRssiGrid(sim, d, obs, tx, g, off) ==
    LET rssi == RssiGrid(sim, d, obs, tx)
        shadow == IF sim.shadow_fading_std > 0 THEN ShadowFading(sim, d, g, off)
                  ELSE [c \in Cells(d) |-> 0]
        multipath == IF sim.multipath_fading
                     THEN MultipathFading(d, g, off + ShadowDraws(sim, d))
                     ELSE [c \in Cells(d) |-> 0]
    IN  [c \in Cells(d) |-> rssi[c] + shadow[c] + multipath[c]]

FadedRssiStack(sim, d, obs, txs, g) ==
    [i \in 1 .. Len(txs) |->
        FadedRssiGrid(sim, d, obs, txs[i], g,
                      (i - 1) * (ShadowDraws(sim, d) + MultipathDraws(sim, d)))]

\* Simulation.run (71-140) of a Simulation with its fading parameters, the
\* generator in state g
SimulationRunFading(sim, d, obs, txs, nss, g) ==
    LET stack == FadedRssiStack(sim, d, obs, txs, g)
        rssi == RssiByLabel(txs, stack)
        interference == InterferenceGrid(sim, d, obs, nss)
        snr == [l \in DOMAIN rssi |->
                   [c \in Cells(d) |-> rssi[l][c] - (interference[c] + sim.noise_figure_db)]]
    IN  [ran |-> TRUE, rssi |-> rssi, interference |-> interference, snr |-> snr,
         best_rssi |-> IF Len(txs) > 0 THEN MaxReduce(d, Range(stack))
                       ELSE [c \in Cells(d) |-> sim.noise_floor_dbm],
         best_snr |-> IF DOMAIN snr # {} THEN MaxReduce(d, Range(snr))
                      ELSE [c \in Cells(d) |-> 0]]

\* the generator after the run
GeneratorAfterRun(sim, d, txs, g) ==
    [g EXCEPT !.pos = @ + Len(txs) * (ShadowDraws(sim, d) + MultipathDraws(sim, d))]

----------------------------------------------------------------------------
(* Specification SpecFade: the generator is seeded, the Environment of     *)
(* SpecSim receives its transmitters, and one Simulation is run twice; the *)
(* caller may reseed the generator at any moment.                          *)

ShadowStds == { 0, 200 }

InitFade ==
    /\ dims = SimDims
    /\ transmitters = <<>>
    /\ gateways = <<>>
    /\ noise_sources \in { <<>>, <<SimNoise>> }
    /\ walls = <<>>
    /\ obstacles = <<>>
    /\ result = NoResult
    /\ stats = NoStats
    /\ rng \in { Generator(s) : s \in Seeds }
    /\ IdlePlace
    /\ IdleApp
    /\ call = [op |-> "none", runs |-> 0]
    /\ pc = "build"

\* np.random.seed(s), called by the program that drives the Simulation
SeedGenerator ==
    /\ pc \in { "build", "ran" }
    /\ call.runs < 2
    /\ \E s \in Seeds : rng' = Generator(s)
    /\ UNCHANGED <<envVars, result, stats, call, pc, placeVars, appVars>>

\* Simulation(env, shadow_fading_std = std, multipath_fading = m).run(), and
\* run() of the same Simulation a second time
RunFading ==
    /\ pc \in { "build", "ran" }
    /\ call.runs < 2
    /\ \E std \in ShadowStds, m \in BOOLEAN :
          LET sim == IF call.runs = 0 THEN Simulation(std, m) ELSE call.sim
          IN  /\ call.runs > 0 => std = call.sim.shadow_fading_std
                                    /\ m = call.sim.multipath_fading
              /\ result' = SimulationRunFading(sim, dims, obstacles, transmitters,
                                               noise_sources, rng)
              /\ rng' = GeneratorAfterRun(sim, dims, transmitters, rng)
              /\ call' = [op |-> "run", sim |-> sim, runs |-> call.runs + 1,
                          generator |-> rng,
                          previous |-> IF call.runs = 0 THEN NoCall
                                       ELSE [op |-> "run", generator |-> call.generator,
                                             result |-> result]]
    /\ pc' = "ran"
    /\ UNCHANGED <<envVars, stats, placeVars, appVars>>

NextFade == AddTransmitter \/ SeedGenerator \/ RunFading

SpecFade == InitFade /\ [][NextFade]_vars

TwoFadingRuns ==
    /\ call.op = "run"
    /\ call.runs = 2
    /\ FadingEnabled(call.sim)
    /\ Len(transmitters) >= 1

\* C14: two runs of a Simulation with fading enabled, on the same
\* Environment and under the same seed of the generator, produce identical
\* grids.
C14_SameSeedSameGrids ==
    TwoFadingRuns /\ call.generator.seed = call.previous.generator.seed =>
        result = call.previous.result

\* the grids repeat when the caller has put the generator back into the
\* same state before the second run, and whenever no fading is drawn
SameGeneratorStateSameGrids ==
    /\ call.op = "run"
    /\ call.runs = 2
    /\ call.generator = call.previous.generator \/ ~FadingEnabled(call.sim)
    => result = call.previous.result

\* a second run under the same seed whose grids differ from the first
SecondRunDiffers ==
    /\ TwoFadingRuns
    /\ call.generator.seed = call.previous.generator.seed
    /\ result # call.previous.result

\* a second run after the caller reseeded, with the grids of the first
ReseededRunRepeats ==
    /\ TwoFadingRuns
    /\ call.generator = call.previous.generator

----------------------------------------------------------------------------
(* Obstacle.from_material: environment.py 16-23 and 62-94.  A material     *)
(* name enters as the sequence of its characters; str.lower works on the   *)
(* characters and the lowered name is a string.                            *)

\* MATERIAL_ATTENUATION, in centi-dB
MaterialAttenuation ==
    [drywall |-> 300, wood |-> 400, glass |-> 200, concrete |-> 1200,
     brick |-> 1000, metal |-> 2000]

UpperCase == <<"A", "B", "C", "D", "E", "F", "G", "H", "I", "J", "K", "L", "M",
               "N", "O", "P", "Q", "R", "S", "T", "U", "V", "W", "X", "Y", "Z">>
LowerCase == <<"a", "b", "c", "d", "e", "f", "g", "h", "i", "j", "k", "l", "m",
               "n", "o", "p", "q", "r", "s", "t", "u", "v", "w", "x", "y", "z">>

\* str.lower of one character
LowerChar(ch) ==
    IF \E i \in 1 .. Len(UpperCase) : UpperCase[i] = ch
    THEN LowerCase[CHOOSE i \in 1 .. Len(UpperCase) : UpperCase[i] = ch]
    ELSE ch

\* material.lower()
RECURSIVE StrLower(_)
StrLower(name) ==
    IF name = <<>> THEN "" ELSE LowerChar(Head(name)) \o StrLower(Tail(name))

\* the name as it was given
RECURSIVE StrOf(_)
StrOf(name) == IF name = <<>> THEN "" ELSE Head(name) \o StrOf(Tail(name))

\* a plausible slip: the preset is looked up under the name as given
FromMaterialCaseSensitive(sp, ep, material) ==
    IF StrOf(material) \notin DOMAIN MaterialAttenuation
    THEN [raised |-> "ValueError"]
    ELSE [raised |-> "none",
          value |-> Obstacle(sp, ep, MaterialAttenuation[StrOf(material)],
                             StrLower(material))]

\* a plausible slip: the Obstacle keeps the name as given
FromMaterialKeepsName(sp, ep, material) ==
    IF StrLower(material) \notin DOMAIN MaterialAttenuation
    THEN [raised |-> "ValueError"]
    ELSE [raised |-> "none",
          value |-> Obstacle(sp, ep, MaterialAttenuation[StrLower(material)],
                             StrOf(material))]

\* Obstacle.from_material (62-94): the exception raised, or the Obstacle
FromMaterial(sp, ep, material) ==
    IF StrLower(material) \notin DOMAIN MaterialAttenuation
    THEN [raised |-> "ValueError"]
    ELSE [raised |-> "none",
          value |-> Obstacle(sp, ep, MaterialAttenuation[StrLower(material)],
                             StrLower(material))]

----------------------------------------------------------------------------
(* Specification SpecMat: one call of Obstacle.from_material with a name   *)
(* of the pool between two grid points; an Obstacle that was returned is   *)
(* registered with Environment.add_obstacle.                               *)

\* names with the lower-case form expected of them, written out
MaterialNames ==
    { [chars |-> <<"c", "o", "n", "c", "r", "e", "t", "e">>, lower |-> "concrete"],
      [chars |-> <<"B", "R", "I", "C", "K">>, lower |-> "brick"],
      [chars |-> <<"B", "r", "i", "c", "k">>, lower |-> "brick"],
      [chars |-> <<"m", "e", "t", "a", "L">>, lower |-> "metal"],
      [chars |-> <<"D", "r", "y", "W", "a", "l", "l">>, lower |-> "drywall"],
      [chars |-> <<"g", "l", "a", "s", "s">>, lower |-> "glass"],
      [chars |-> <<"W", "O", "O", "D">>, lower |-> "wood"],
      [chars |-> <<"u", "n", "o", "b", "t", "a", "n", "i", "u", "m">>,
       lower |-> "unobtanium"],
      [chars |-> <<"B", "r", "i", "c", "k", "s">>, lower |-> "bricks"],
      [chars |-> <<" ", "b", "r", "i", "c", "k">>, lower |-> " brick"],
      [chars |-> <<"W", "a", "t", "e", "r">>, lower |-> "water"],
      [chars |-> <<>>, lower |-> ""] }

InitMat ==
    /\ dims = SimDims
    /\ transmitters = <<>>
    /\ gateways = <<>>
    /\ noise_sources = <<>>
    /\ walls = <<>>
    /\ obstacles = <<>>
    /\ IdleSim
    /\ IdlePlace
    /\ IdleApp
    /\ call = NoCall
    /\ pc = "build"

CallFromMaterial ==
    /\ pc = "build"
    /\ \E sp \in Points, ep \in Points, name \in MaterialNames :
          /\ call' = [op |-> "from_material", start_point |-> sp, end_point |-> ep,
                      material |-> name.chars, expected_lower |-> name.lower,
                      outcome |-> FromMaterial(sp, ep, name.chars)]
          /\ pc' = IF call'.outcome.raised = "none" THEN "returned" ELSE "raised"
    /\ UNCHANGED <<envVars, simVars, placeVars, appVars>>

\* env.add_obstacle(obs) with the Obstacle returned
AddMaterialObstacle ==
    /\ pc = "returned"
    /\ obstacles' = Append(obstacles, call.outcome.value)
    /\ pc' = "added"
    /\ UNCHANGED <<dims, transmitters, gateways, noise_sources, walls, simVars, call,
                   placeVars, appVars>>

NextMat == CallFromMaterial \/ AddMaterialObstacle

SpecMat == InitMat /\ [][NextMat]_vars

\* C20: from_material raises ValueError, and produces no Obstacle, for
\* every name whose lower-case form is not a key of MATERIAL_ATTENUATION;
\* for a known name in any letter case it returns an Obstacle between the
\* given points whose attenuation_db is the preset and whose material is
\* the lower-cased name.
C20_FromMaterialRejectsUnknown ==
    call.op = "from_material" =>
        IF call.expected_lower \in DOMAIN MaterialAttenuation
        THEN /\ pc \in { "returned", "added" }
             /\ call.outcome.raised = "none"
             /\ call.outcome.value
                  = Obstacle(call.start_point, call.end_point,
                             MaterialAttenuation[call.expected_lower],
                             call.expected_lower)
             /\ pc = "added" => obstacles = <<call.outcome.value>>
        ELSE /\ pc = "raised"
             /\ call.outcome.raised = "ValueError"
             /\ "value" \notin DOMAIN call.outcome
             /\ obstacles = <<>>

\* a known name given in capitals has produced an Obstacle
C20_Witness_UpperCaseAccepted ==
    /\ pc = "added"
    /\ call.material = <<"B", "R", "I", "C", "K">>
    /\ obstacles[1].material = "brick"

\* an unknown name was rejected
UnknownMaterialRaised ==
    /\ pc = "raised"
    /\ call.expected_lower = "unobtanium"

----------------------------------------------------------------------------
(* The Environment object: environment.py 27-38, 149-185, 221-227.         *)

Wall(x1, y1, x2, y2, att) ==
    [x1 |-> x1, y1 |-> y1, x2 |-> x2, y2 |-> y2, attenuation_db |-> att]

\* Environment.__init__ (149-165): the fields are stored as given and the
\* grid is built by np.arange, which raises for a step of zero and returns an
\* array, possibly empty, for every other step
EnvironmentInit(width, height, resolution) ==
    IF resolution = 0
    THEN [raised |-> "arange"]
    ELSE [raised |-> "none",
          value |-> [width |-> width, height |-> height, resolution |-> resolution]]

----------------------------------------------------------------------------
(* Specification SpecEnv: an Environment is constructed from signed        *)
(* arguments, devices and obstacles are registered and distance_grid is    *)
(* called from points inside and outside the area.                         *)

Widths == { -2, -1, 0, 1, MaxX }
Heights == { -1, 0, MaxY }
Resolutions == { -1, 0, 1, 2 }

EnvTransmitters == { t \in TransmitterPool : t.label = "a" }
EnvGateways ==
    { Gateway(0, 0, LoRaWAN_EU868, DefaultSensitivity),
      Gateway(MaxX, MaxY, LoRaWAN_EU868, DefaultSensitivity) }
WallPool == { Wall(1, 0, 1, MaxY, 1500), Wall(0, 1, MaxX, 1, 1000) }
SourcePoints ==
    { <<-1, -1>>, <<0, 0>>, <<1, 0>>, <<1, 1>>, <<MaxX, MaxY>>, <<MaxX + 1, 0>> }

\* the number of registrations made on the Environment
Registered ==
    Len(transmitters) + Len(gateways) + Len(noise_sources) + Len(walls)
        + Len(obstacles)

InitEnv ==
    /\ IdleEnv
    /\ IdleSim
    /\ IdlePlace
    /\ IdleApp
    /\ call = NoCall
    /\ pc = "new"

ConstructEnvironment ==
    /\ pc = "new"
    /\ \E w \in Widths, h \in Heights, r \in Resolutions :
          /\ call' = [op |-> "Environment", width |-> w, height |-> h,
                      resolution |-> r, outcome |-> EnvironmentInit(w, h, r)]
          /\ dims' = IF call'.outcome.raised = "none"
                     THEN call'.outcome.value ELSE dims
          /\ pc' = IF call'.outcome.raised = "none" THEN "built" ELSE "raised"
    /\ transmitters' = <<>>
    /\ gateways' = <<>>
    /\ noise_sources' = <<>>
    /\ walls' = <<>>
    /\ obstacles' = <<>>
    /\ UNCHANGED <<simVars, placeVars, appVars>>

\* a plausible slip: the wall is appended to the obstacles
RegisterWallAsObstacle ==
    /\ pc = "built"
    /\ Registered < MaxTx
    /\ \E a \in WallPool :
          /\ obstacles' = Append(obstacles, a)
          /\ call' = [op |-> "add_wall", arg |-> a]
    /\ UNCHANGED <<dims, transmitters, gateways, noise_sources, walls, simVars,
                   pc, placeVars, appVars>>

\* add_transmitter (171-172)
RegisterTransmitter ==
    /\ pc = "built"
    /\ Registered < MaxTx
    /\ \E a \in EnvTransmitters :
          /\ transmitters' = Append(transmitters, a)
          /\ call' = [op |-> "add_transmitter", arg |-> a]
    /\ UNCHANGED <<dims, gateways, noise_sources, walls, obstacles, simVars,
                   pc, placeVars, appVars>>

\* add_gateway (174-175)
RegisterGateway ==
    /\ pc = "built"
    /\ Registered < MaxTx
    /\ \E a \in EnvGateways :
          /\ gateways' = Append(gateways, a)
          /\ call' = [op |-> "add_gateway", arg |-> a]
    /\ UNCHANGED <<dims, transmitters, noise_sources, walls, obstacles, simVars,
                   pc, placeVars, appVars>>

\* add_noise_source (177-178)
RegisterNoiseSource ==
    /\ pc = "built"
    /\ Registered < MaxTx
    /\ \E a \in NoisePool :
          /\ noise_sources' = Append(noise_sources, a)
          /\ call' = [op |-> "add_noise_source", arg |-> a]
    /\ UNCHANGED <<dims, transmitters, gateways, walls, obstacles, simVars,
                   pc, placeVars, appVars>>

\* add_wall (180-181)
RegisterWall ==
    /\ pc = "built"
    /\ Registered < MaxTx
    /\ \E a \in WallPool :
          /\ walls' = Append(walls, a)
          /\ call' = [op |-> "add_wall", arg |-> a]
    /\ UNCHANGED <<dims, transmitters, gateways, noise_sources, obstacles, simVars,
                   pc, placeVars, appVars>>

\* add_obstacle (183-185)
RegisterObstacle ==
    /\ pc = "built"
    /\ Registered < MaxTx
    /\ \E a \in ObstaclePool :
          /\ obstacles' = Append(obstacles, a)
          /\ call' = [op |-> "add_obstacle", arg |-> a]
    /\ UNCHANGED <<dims, transmitters, gateways, noise_sources, walls, simVars,
                   pc, placeVars, appVars>>

\* distance_grid (221-223)
CallDistanceGrid ==
    /\ pc = "built"
    /\ \E src \in SourcePoints :
          call' = [op |-> "distance_grid", src |-> src,
                   ret |-> DistanceSqGrid(dims, src)]
    /\ UNCHANGED <<envVars, simVars, pc, placeVars, appVars>>

NextEnv ==
    \/ ConstructEnvironment
    \/ RegisterTransmitter
    \/ RegisterGateway
    \/ RegisterNoiseSource
    \/ RegisterWall
    \/ RegisterObstacle
    \/ CallDistanceGrid

SpecEnv == InitEnv /\ [][NextEnv]_vars

\* C21: constructing an Environment with a negative width, height or
\* resolution is reported to the caller as an error, and no Environment
\* with a negative dimension exists afterwards.
C21_NegativeDimensionsRejected ==
    /\ call.op = "Environment"
            /\ (call.width < 0 \/ call.height < 0 \/ call.resolution < 0)
         => call.outcome.raised # "none" /\ pc = "raised"
    /\ dims.width >= 0 /\ dims.height >= 0 /\ dims.resolution >= 0

\* an Environment with every dimension negative has a grid with cells at
\* negative coordinates
NegativeEnvironmentHasCells ==
    /\ pc = "built"
    /\ dims.width < 0 /\ dims.height < 0 /\ dims.resolution < 0
    /\ Cells(dims) # {}

\* the only error of the constructor is the zero step of np.arange
ConstructorRaisesOnlyOnZeroStep ==
    call.op = "Environment" => (pc = "raised" <=> call.resolution = 0)

\* the squared Euclidean distance, in square millimetres, from the source of
\* the last distance_grid call to the grid coordinates of cell c
SquaredDistanceTo(c) ==
    ((c[2] * dims.resolution - call.src[1]) * (c[2] * dims.resolution - call.src[1])
        + (c[1] * dims.resolution - call.src[2]) * (c[1] * dims.resolution - call.src[2]))
        * SqMetre

\* resolution squared, in square millimetres
SquaredResolution == dims.resolution * dims.resolution * SqMetre

\* C22: for every source point, inside or outside the area, on or off a
\* cell, every entry of distance_grid is at least the resolution: it is the
\* Euclidean distance from the source to the cell when that distance is at
\* least the resolution, and the resolution otherwise, in particular at a
\* cell that coincides with the source.
C22_DistanceClampedToResolution ==
    call.op = "distance_grid" =>
        /\ DOMAIN call.ret = Cells(dims)
        /\ \A c \in Cells(dims) :
              IF dims.resolution <= 0 \/ SquaredDistanceTo(c) >= SquaredResolution
              THEN call.ret[c] = SquaredDistanceTo(c)
              ELSE call.ret[c] = SquaredResolution
        /\ dims.resolution > 0 =>
              \A c \in Cells(dims) :
                  /\ call.ret[c] >= SquaredResolution
                  /\ SquaredDistanceTo(c) = 0 => call.ret[c] = SquaredResolution

\* a source outside the area and off the cells of a grid of resolution 2:
\* the cell next to it is clamped, a cell further away is not
C22_Witness_ClampedAndFree ==
    /\ call.op = "distance_grid"
    /\ dims.resolution = 2
    /\ call.src = <<-1, -1>>
    /\ \E c \in Cells(dims) :
          SquaredDistanceTo(c) = 2 * SqMetre /\ call.ret[c] = 4 * SqMetre
    /\ \E c \in Cells(dims) :
          SquaredDistanceTo(c) > SquaredResolution /\ call.ret[c] = SquaredDistanceTo(c)

\* a source outside the area, and a source on a cell
OutsideSourceMeasured ==
    /\ call.op = "distance_grid"
    /\ dims.resolution = 1
    /\ call.src = <<MaxX + 1, 0>>
    /\ <<0, 0>> \in Cells(dims)
    /\ call.ret[<<0, 0>>] = (MaxX + 1) * (MaxX + 1) * SqMetre

SourceOnCellClamped ==
    /\ call.op = "distance_grid"
    /\ dims.resolution = 1
    /\ call.src = <<1, 1>>
    /\ <<1, 1>> \in Cells(dims)
    /\ call.ret[<<1, 1>>] = SqMetre

\* four times the squared distance, in square millimetres, from the source
\* of the last distance_grid call to the centre of cell c
FourSquaredDistanceToCentre(c) ==
    ((2 * c[2] * dims.resolution + dims.resolution - 2 * call.src[1])
            * (2 * c[2] * dims.resolution + dims.resolution - 2 * call.src[1])
        + (2 * c[1] * dims.resolution + dims.resolution - 2 * call.src[2])
            * (2 * c[1] * dims.resolution + dims.resolution - 2 * call.src[2]))
        * SqMetre

\* rows = ceil(height / resolution) and cols = ceil(width / resolution) on
\* an Environment whose dimensions are not negative
GridShapeIsCeil ==
    pc = "built" /\ dims.width >= 0 /\ dims.height >= 0 /\ dims.resolution > 0 =>
        /\ Rows(dims) * dims.resolution >= dims.height
        /\ (Rows(dims) - 1) * dims.resolution < dims.height
        /\ Cols(dims) * dims.resolution >= dims.width
        /\ (Cols(dims) - 1) * dims.resolution < dims.width
        /\ Cells(dims) = (0 .. Rows(dims) - 1) \X (0 .. Cols(dims) - 1)

\* C23: the grid has ceil(height / resolution) rows and ceil(width /
\* resolution) columns, and the coordinates distance_grid uses for the cell
\* at (row, col) are the cell centre (col*res + res/2, row*res + res/2), the
\* coordinates of the vectorized shadowing path.
C23_CellCoordinatesAreCentres ==
    /\ GridShapeIsCeil
    /\ call.op = "distance_grid" /\ dims.resolution > 0 =>
          \A c \in Cells(dims) :
              4 * call.ret[c]
                  = Max2(FourSquaredDistanceToCentre(c), 4 * SquaredResolution)

\* the coordinates of the cell at (row, col) are (col*res, row*res)
CellCoordinatesAreCorners ==
    call.op = "distance_grid" /\ dims.resolution > 0 =>
        \A c \in Cells(dims) :
            /\ GridPoint(dims, c) = <<c[2] * dims.resolution, c[1] * dims.resolution>>
            /\ call.ret[c] = Max2(SquaredDistanceTo(c), SquaredResolution)

\* a call where the corner and the centre of a cell give different entries
CornerAndCentreDiffer ==
    /\ call.op = "distance_grid"
    /\ dims.resolution = 1
    /\ call.src = <<0, 0>>
    /\ <<0, 1>> \in Cells(dims)
    /\ call.ret[<<0, 1>>] = SqMetre
    /\ FourSquaredDistanceToCentre(<<0, 1>>) = 10 * SqMetre

\* the five lists of the Environment, by the operation that registers into
\* them
ListOf(op, tx, gw, ns, ws, obs) ==
    CASE op = "add_transmitter" -> tx
      [] op = "add_gateway" -> gw
      [] op = "add_noise_source" -> ns
      [] op = "add_wall" -> ws
      [] op = "add_obstacle" -> obs

Registrations ==
    { "add_transmitter", "add_gateway", "add_noise_source", "add_wall", "add_obstacle" }

\* C24: each registration operation appends its argument as the last element
\* of exactly its own list, which grows by one and keeps its earlier
\* elements in order; the other four lists, the grid shape and the grid
\* coordinates stay as they were, after any sequence of registrations.
C24_RegistrationAppendsToOwnList ==
    [][ pc = "built" /\ envVars' # envVars =>
          /\ call'.op \in Registrations
          /\ \A op \in Registrations :
                \E before \in { ListOf(op, transmitters, gateways, noise_sources,
                                       walls, obstacles) },
                   after \in { ListOf(op, transmitters', gateways', noise_sources',
                                      walls', obstacles') } :
                    IF op = call'.op
                    THEN /\ Len(after) = Len(before) + 1
                         /\ after[Len(after)] = call'.arg
                         /\ \A i \in 1 .. Len(before) : after[i] = before[i]
                    ELSE after = before
          /\ dims' = dims
          /\ Cells(dims') = Cells(dims)
          /\ \A c \in Cells(dims) : GridPoint(dims', c) = GridPoint(dims, c)
      ]_vars

\* a wall and then an obstacle were registered, the wall list untouched by
\* the second registration
C24_Witness_WallThenObstacle ==
    /\ pc = "built"
    /\ call.op = "add_obstacle"
    /\ Len(walls) = 1
    /\ Len(obstacles) = 1
    /\ obstacles[1] = call.arg
    /\ Cells(dims) # {}

\* the same transmitter registered twice is listed twice
SameDeviceTwice ==
    /\ pc = "built"
    /\ Len(transmitters) = 2
    /\ transmitters[1] = transmitters[2]

----------------------------------------------------------------------------
(* Specification SpecPool: coverage_score evaluated by the workers of a    *)
(* pool on one Environment.  A worker runs the statements of placement.py  *)
(* 34-64 in order, one step per statement that reads or writes the lists   *)
(* of the Environment: save gateways (34), assign gateways (35), save      *)
(* transmitters (39-48), assign transmitters (49), simulate (51-59),       *)
(* restore gateways (61), restore transmitters (62) and return (64).  The  *)
(* steps of different workers interleave freely.                           *)

PoolWorkers == { 1, 2 }

\* a gateway constructed with protocol = None
NoProtocol == [name |-> "None"]

PoolGatewayLists ==
    { <<Gateway(0, 0, LoRaWAN_EU868, DefaultSensitivity)>>,
      <<Gateway(1, 0, LoRaWAN_EU868, DefaultSensitivity)>>,
      <<Gateway(1, 0, NoProtocol, DefaultSensitivity)>> }

InitPool ==
    /\ dims = SimDims
    /\ \/ transmitters = <<>> /\ gateways = <<>>
       \/ transmitters = <<OwnTransmitter>> /\ gateways = <<OwnGateway>>
    /\ noise_sources = <<>>
    /\ walls = <<>>
    /\ obstacles \in { <<>>, <<SimWall>> }
    /\ IdleSim
    /\ placed = <<>>
    /\ suggestions = <<>>
    /\ search = NoSearch
    /\ frames = [w \in PoolWorkers |-> IdleFrame]
    /\ IdleApp
    /\ call = [op |-> "pool", env_gateways |-> gateways,
               env_transmitters |-> transmitters]
    /\ pc = "pool"

\* worker w is handed coverage_score(env, gws)
SubmitCoverageScore(w) ==
    /\ pc = "pool"
    /\ frames[w].pc = "idle"
    /\ \E gws \in PoolGatewayLists :
          frames' = [frames EXCEPT
                        ![w] = EnterCoverageScore(gws, ScoreKwargs(DefaultSensitivity))]
    /\ UNCHANGED <<envVars, simVars, call, pc, placed, suggestions, search, appVars>>

\* every worker has finished, with a score or with an exception
CollectScores ==
    /\ pc = "pool"
    /\ \A w \in PoolWorkers : frames[w].pc \in { "returned", "raised" }
    /\ pc' = "collected"
    /\ UNCHANGED <<envVars, simVars, call, frames, placed, suggestions, search, appVars>>

NextPool ==
    \/ \E w \in PoolWorkers :
          \/ SubmitCoverageScore(w)
          \/ CoverageScoreSaveGateways(w)
          \/ CoverageScoreAssignGateways(w)
          \/ CoverageScoreSaveTransmitters(w)
          \/ CoverageScoreAssignTransmitters(w)
          \/ CoverageScoreSimulate(w)
          \/ CoverageScoreRestoreGateways(w)
          \/ CoverageScoreRestoreTransmitters(w)
          \/ CoverageScoreReturn(w)
    \/ CollectScores

SpecPool == InitPool /\ [][NextPool]_vars

\* C25: when two coverage_score evaluations on one Environment interleave at
\* their save, assign, simulate and restore steps, each returns the score
\* it returns when run alone, and once both have returned env.gateways and
\* env.transmitters are the lists from before either started.
C25_InterleavedScoresAsAlone ==
    /\ \A w \in PoolWorkers :
          frames[w].pc = "returned" =>
              frames[w].score = CoverageScoreValue(frames[w].kw, frames[w].gateways)
    /\ (\A w \in PoolWorkers : frames[w].pc = "returned") =>
          /\ gateways = call.env_gateways
          /\ transmitters = call.env_transmitters

\* a worker that ran while the other never started returns the score of its
\* own gateways and leaves the lists as they were
RunAloneScoresAndRestores ==
    \A w \in PoolWorkers :
        /\ frames[w].pc = "returned"
        /\ \A v \in PoolWorkers \ { w } : frames[v].pc = "idle"
        => /\ frames[w].score = CoverageScoreValue(frames[w].kw, frames[w].gateways)
           /\ gateways = call.env_gateways
           /\ transmitters = call.env_transmitters

RanAlone ==
    /\ frames[1].pc = "returned"
    /\ frames[2].pc = "idle"
    /\ gateways = <<OwnGateway>>

\* both workers returned and a transmitter list that is neither's entry
\* list nor the caller's is left on the Environment
PoolLeavesVirtualTransmitters ==
    /\ pc = "collected"
    /\ \A w \in PoolWorkers : frames[w].pc = "returned"
    /\ call.env_transmitters = <<OwnTransmitter>>
    /\ transmitters # <<OwnTransmitter>>

\* a worker returned the score of the other worker's gateways
WorkerScoredOtherGateways ==
    /\ frames[1].pc = "returned"
    /\ frames[2].pc = "returned"
    /\ frames[1].gateways # frames[2].gateways
    /\ frames[1].score # CoverageScoreValue(frames[1].kw, frames[1].gateways)
    /\ frames[1].score = CoverageScoreValue(frames[2].kw, frames[2].gateways)

\* C26: when coverage_score ends with an exception, env.gateways and
\* env.transmitters are the lists from before the call.
C26_ListsRestoredOnException ==
    \A w \in DOMAIN frames :
        frames[w].pc = "raised" =>
            /\ gateways = frames[w].entry_gateways
            /\ transmitters = frames[w].entry_transmitters

\* np.min of the empty best_snr grid of a zero-area Environment raised: both
\* lists still hold the values assigned for the evaluation
RaisedOnEmptyGridLeavesBoth ==
    /\ Cells(dims) = {}
    /\ frames[1].pc = "raised"
    /\ frames[1].gateways # <<>>
    /\ gateways = frames[1].gateways
    /\ gateways # frames[1].entry_gateways
    /\ transmitters = VirtualTxs(frames[1].gateways)
    /\ transmitters # frames[1].entry_transmitters

\* a gateway without protocol raised at line 43, with no other call in
\* progress: env.gateways is the argument, env.transmitters was not touched
RaisedOnProtocolLeavesGateways ==
    /\ frames[1].pc = "raised"
    /\ frames[2].pc = "idle"
    /\ gateways = frames[1].gateways
    /\ gateways # frames[1].entry_gateways
    /\ transmitters = frames[1].entry_transmitters

\* an exception leaves env.gateways as the argument of the call that raised,
\* when no other call is in progress
ExceptionLeavesArgument ==
    \A w \in DOMAIN frames :
        /\ frames[w].pc = "raised"
        /\ \A v \in DOMAIN frames \ { w } : frames[v].pc = "idle"
        => gateways = frames[w].gateways

----------------------------------------------------------------------------
(* The two shadowing engines of run_simulation: app.py 326-334, 452-465.   *)

\* the RSSI grid of transmitter i of the Environment without any obstacle
ClearRssi(i) == RssiGrid(AppSimulation(config), dims, <<>>, transmitters[i])

\* what the obstacles took from the per-label grid of transmitter i at c
ObstacleLoss(i, c) ==
    ClearRssi(i)[c] - result.rssi[LabelOf(transmitters[i], i - 1)][c]

\* the loss added inside Simulation.run for the segments of the Environment
SegmentLoss(i, c) ==
    ObstacleAttenuationGrid(dims, obstacles,
                            <<transmitters[i].x, transmitters[i].y>>)[c]

\* the loss subtracted afterwards by _apply_obstacle_shadows
VectorizedLoss(i, c) ==
    ShadowGrid(dims, config.obstacles, <<transmitters[i].x, transmitters[i].y>>)[c]

\* a request of one transmitting device and one rectangle has returned from
\* _apply_obstacle_shadows
OneDeviceOneRect ==
    /\ pc = "returned"
    /\ Len(config.devices) = 1
    /\ Len(transmitters) = 1
    /\ Len(config.obstacles) = 1

\* the cell lies outside the rectangle, by its grid coordinates and by its
\* centre
OutsideCell(c, r) ==
    /\ ~InsideRect(GridPoint(dims, c), r)
    /\ ~InsideRect(CellCentre(dims, c), r)

\* C27: in run_simulation a rectangle attenuates a transmitter's per-label
\* RSSI at a cell through one shadowing engine only, never by the sum of the
\* segment loss of Simulation.run and the vectorized loss subtracted
\* afterwards: a rectangle of attenuation A takes at most 2*A from the RSSI
\* of a cell outside it.
C27_RectangleAttenuatesOnce ==
    OneDeviceOneRect =>
        \A c \in Cells(dims) :
            OutsideCell(c, config.obstacles[1]) =>
                /\ ObstacleLoss(1, c) <= 2 * ShadowAttenuation(config.obstacles[1])
                /\ SegmentLoss(1, c) = 0 \/ VectorizedLoss(1, c) = 0

\* the loss of a labelled device is the sum of the two engines
LossIsSumOfBothEngines ==
    OneDeviceOneRect /\ "label" \in DOMAIN config.devices[1] =>
        \A c \in Cells(dims) :
            ObstacleLoss(1, c) = SegmentLoss(1, c) + VectorizedLoss(1, c)

\* a cell behind the rectangle lost three times its attenuation: two
\* crossed segments and the vectorized shadow
RectangleTookThreeTimes ==
    /\ OneDeviceOneRect
    /\ \E c \in Cells(dims) :
          /\ OutsideCell(c, config.obstacles[1])
          /\ SegmentLoss(1, c) = 2 * SegmentAttenuation(config.obstacles[1])
          /\ VectorizedLoss(1, c) = ShadowAttenuation(config.obstacles[1])
          /\ ObstacleLoss(1, c) = 3 * ShadowAttenuation(config.obstacles[1])

\* the transmitter whose grid result.rssi holds under label l: the last one
\* of the Environment with that label
OwnerOf(l) ==
    CHOOSE i \in 1 .. Len(transmitters) :
        /\ LabelOf(transmitters[i], i - 1) = l
        /\ \A j \in 1 .. Len(transmitters) :
              LabelOf(transmitters[j], j - 1) = l => j <= i

\* the result of Simulation.run on the Environment of the request, before
\* _apply_obstacle_shadows
BeforeShadows ==
    SimulationRun(AppSimulation(config), dims, obstacles, transmitters, noise_sources)

\* grid g with the vectorized attenuation from transmitter i subtracted once
ShadowedOnce(g, i) == [c \in Cells(dims) |-> g[c] - VectorizedLoss(i, c)]

\* C28: when _apply_obstacle_shadows has returned, for every device list the
\* RSSI grid and the SNR grid of every label have been reduced exactly once,
\* by the attenuation grid computed from the position of the label's own
\* transmitter: no label is attenuated twice and none is skipped.
C28_EveryLabelShadowedOnce ==
    pc = "returned" /\ config.obstacles # <<>> =>
        \E before \in { BeforeShadows } :
            \A l \in DOMAIN result.rssi :
                /\ result.rssi[l] = ShadowedOnce(before.rssi[l], OwnerOf(l))
                /\ result.snr[l] = ShadowedOnce(before.snr[l], OwnerOf(l))

\* a request whose transmitting devices all carry a label key, and whose
\* devices all stand on different positions under different labels, is
\* shadowed as C28 says
LabelledApartShadowedOnce ==
    /\ pc = "returned"
    /\ config.obstacles # <<>>
    /\ \A i \in 1 .. Len(config.devices) :
          /\ IsPowerMeter(config.devices[i]) \/ "label" \in DOMAIN config.devices[i]
          /\ \A j \in 1 .. Len(config.devices) :
                j # i =>
                   /\ <<config.devices[j].x, config.devices[j].y>>
                         # <<config.devices[i].x, config.devices[i].y>>
                   /\ DeviceLabel(config.devices[j]) # DeviceLabel(config.devices[i])
    => \E before \in { BeforeShadows } :
           \A l \in DOMAIN result.rssi :
               /\ result.rssi[l] = ShadowedOnce(before.rssi[l], OwnerOf(l))
               /\ result.snr[l] = ShadowedOnce(before.snr[l], OwnerOf(l))

TwoLabelledApart ==
    /\ pc = "returned"
    /\ config.obstacles # <<>>
    /\ Cardinality(DOMAIN result.rssi) = 2
    /\ <<transmitters[1].x, transmitters[1].y>> # <<transmitters[2].x, transmitters[2].y>>
    /\ \E c \in Cells(dims) : VectorizedLoss(1, c) # VectorizedLoss(2, c)

\* two devices on one position: the label of the first was reduced twice,
\* the label of the second not at all
FirstTwiceSecondSkipped ==
    /\ pc = "returned"
    /\ config.obstacles # <<>>
    /\ Len(transmitters) = 2
    /\ <<transmitters[1].x, transmitters[1].y>> = <<transmitters[2].x, transmitters[2].y>>
    /\ LabelOf(transmitters[1], 0) = "a"
    /\ LabelOf(transmitters[2], 1) = "gw"
    /\ \E c \in Cells(dims) :
          /\ VectorizedLoss(1, c) > 0
          /\ result.rssi["a"][c] = BeforeShadows.rssi["a"][c] - 2 * VectorizedLoss(1, c)
          /\ result.rssi["gw"][c] = BeforeShadows.rssi["gw"][c]

\* a device given without a label key is listed under its type and is not
\* reduced
UnlabelledSkipped ==
    /\ pc = "returned"
    /\ config.obstacles # <<>>
    /\ Len(config.devices) = 1
    /\ "lorawan_endpoint" \in DOMAIN result.rssi
    /\ result.rssi = BeforeShadows.rssi
    /\ \E c \in Cells(dims) : VectorizedLoss(1, c) > 0

----------------------------------------------------------------------------
(* The virtual transmitters of coverage_score: placement.py 37-55.         *)

\* C29: coverage_score simulates exactly one virtual transmitter per gateway
\* of its list, at the gateway's position, with the protocol's
\* max_tx_power_dbm as transmit power and the gateway's antenna_gain_dbi as
\* antenna gain; the Environment's own transmitters take no part, so the
\* score returned is the score of the gateway list, obstacles and noise
\* sources whatever env.transmitters held.  The transmitters are compared in
\* every activation, the score in the direct calls; ReturnedScoreIsValue
\* compares the scores of the search.
C29_OneVirtualTransmitterPerGateway ==
    \A w \in DOMAIN frames :
        /\ frames[w].pc \in { "transmitters", "simulated" } =>
              /\ Len(transmitters) = Len(frames[w].gateways)
              /\ \A i \in 1 .. Len(transmitters) :
                    /\ transmitters[i].x = frames[w].gateways[i].x
                    /\ transmitters[i].y = frames[w].gateways[i].y
                    /\ transmitters[i].protocol = frames[w].gateways[i].protocol
                    /\ transmitters[i].tx_power_dbm
                          = frames[w].gateways[i].protocol.max_tx_power_dbm
                    /\ transmitters[i].antenna_gain_dbi
                          = frames[w].gateways[i].antenna_gain_dbi
        /\ call.op = "coverage_score" /\ frames[w].pc = "returned" =>
              frames[w].score = CoverageScoreValue(frames[w].kw, frames[w].gateways)

\* a direct call with two gateways returned on an Environment that has a
\* transmitter of its own
C29_Witness_OwnTransmitterIgnored ==
    /\ call.op = "coverage_score"
    /\ frames[1].pc = "returned"
    /\ Len(frames[1].gateways) = 2
    /\ frames[1].entry_transmitters = <<OwnTransmitter>>
    /\ transmitters = <<OwnTransmitter>>

\* the same call on an Environment without transmitters
ScoredWithoutOwnTransmitter ==
    /\ call.op = "coverage_score"
    /\ frames[1].pc = "returned"
    /\ Len(frames[1].gateways) = 2
    /\ frames[1].entry_transmitters = <<>>

----------------------------------------------------------------------------
(* The legacy search suggest_gateway_position: placement.py 71-97.         *)

\* the coverage of the Environment of the call: of its transmitters, at the
\* sensitivity of the call, whatever env.gateways holds
LegacyCoverage ==
    CoverageStats(SimulationRun(DefaultSimulation, dims, obstacles,
                                call.env_transmitters, noise_sources),
                  call.sensitivity_dbm).coverage_pct

\* C30: in the legacy suggest_gateway_position the coverage evaluated for a
\* candidate does not depend on the candidate, so every candidate gets the
\* same coverage c; with the strict comparison the function returns the
\* first candidate (0, 0, c) when c > 0 and (0, 0, 0) when c = 0, and
\* env.gateways is restored after every candidate.
C30_LegacyReturnsFirstCandidate ==
    call.op = "suggest_gateway_position" =>
        \E c \in { LegacyCoverage } :
            /\ pc = "legacy" /\ search.trying => search.coverage_pct = c
            /\ pc = "legacy" /\ ~search.trying => gateways = call.env_gateways
            /\ pc \in { "legacy", "legacy_done" } =>
                  /\ search.best \in { <<0, 0, 0>>, <<0, 0, c>> }
                  /\ transmitters = call.env_transmitters
            /\ pc = "legacy_done" =>
                  /\ gateways = call.env_gateways
                  /\ search.best = IF c > 0 THEN <<0, 0, c>> ELSE <<0, 0, 0>>

\* two candidates were tried on an Environment with a gateway of its own and
\* the first was returned with full coverage
C30_Witness_FirstOfTwoKept ==
    /\ pc = "legacy_done"
    /\ Len(CoarseQueue(dims, call.step)) >= 2
    /\ call.env_gateways = <<OwnGateway>>
    /\ search.best[3] > 0

\* the search returned (0, 0, 0) after candidates without coverage
LegacyReturnedNoCoverage ==
    /\ pc = "legacy_done"
    /\ Len(CoarseQueue(dims, call.step)) >= 2
    /\ search.best = <<0, 0, 0>>

=============================================================================
